---------------------------- MODULE Spec2Model ----------------------------
(***************************************************************************)
(* A model of the Jarvis control loop (src/Jarvis): the Goal Store         *)
(* (goals.py), the Memory Log (memory.py) with its indexed mirror          *)
(* (database.py), the Event Bus (event_system.py) and the Orchestration    *)
(* Loop (jarvis.py).                                                       *)
(*                                                                         *)
(* Python strings whose length matters are kept run-length encoded: a      *)
(* string is a sequence of runs <<c, n>> (n >= 1 copies of character c,    *)
(* adjacent runs of different characters), so that the real cap of 1000    *)
(* characters can be used.                                                 *)
(***************************************************************************)
EXTENDS Integers, Sequences, FiniteSets, TLC

VARIABLES
    now,              \* the wall clock read by datetime.now()
    wfails,           \* history: durable writes (flat file, INSERT) that have failed
    \* ---- GoalManager (goals.py)
    goals,            \* self.goals
    gstats,           \* self.stats
    goalsFile,        \* the document at self.db_path
    gcalled,          \* history: ids of goals complete/fail/block were called with
    gmatched,         \* history: the complete and the fail calls that found their goal
    ghist,            \* history: the last Goal Store calls and get_stats() before them
    \* ---- MemoryManager (memory.py) and Database (database.py)
    memory,           \* self.memory
    mstats,           \* self.stats
    memFile,          \* the document at self.json_path
    dbMemory,         \* the rows of table memory in jarvis.db
    mlast,            \* history: the last Memory Log call, its argument and outcome
    mret,             \* history: what the last read returned
    mfailed,          \* history: a durable write of the Memory Log has failed
    \* ---- EventBus (event_system.py)
    subscribers,      \* self.subscribers: event type -> callbacks in subscription order
    published,        \* history: the event types publish was called with
    delivered,        \* history: the callbacks invoked, <<event type, callback>>
    \* ---- Jarvis (jarvis.py)
    pc,               \* where run() stands
    iterations,       \* run's parameter
    loop_i,           \* the loop variable of run
    iteration_count,  \* self.iteration_count
    decision,         \* the decision of the iteration under way
    pos,              \* position in the list a handler or the goals update walks
    collab,           \* counters of coder, executor, researcher, reflector, permissions
    reportFile,       \* jarvis_report.json
    trace,            \* history: what run() has done, in order
    budget,           \* iterations the driver may still ask for
    \* ---- CacheManager (cache.py)
    cache,            \* self.cache: the entries in dict (insertion) order
    max_size,         \* self.max_size
    ttl_seconds,      \* self.ttl_seconds
    cache_enabled,    \* constants.CACHE_ENABLED
    clast,            \* history: the last cache call, its arguments and result
    \* ---- retry (utils.py)
    rpc,              \* where the wrapper stands
    max_attempts,     \* retry's parameter
    delay,            \* retry's parameter
    attempt,          \* the loop variable of wrapper
    rlog,             \* history: the invocations of func and the sleeps, in order
    rresult,          \* what wrapper returned or raised
    \* ---- PermissionManager (permissions.py)
    blocked_count,    \* self.blocked_count
    allowed_count,    \* self.allowed_count
    warnings,         \* self.warnings
    safety_mode,      \* constants.SAFETY_MODE
    block_dangerous,  \* constants.BLOCK_DANGEROUS_CODE
    plast,            \* history: the last check, its argument and result; the scans made
    \* ---- decide_action (agent.py) and APIClient (api_client.py)
    dpc,              \* where decide_action stands
    api_key,          \* OPENAI_API_KEY is set
    outer_attempt,    \* the loop variable of the retry wrapper of decide_action
    inner_attempt,    \* the loop variable of the retry wrapper of create_completion
    dlog,             \* history: the oracle invocations and the sleeps, in order
    dresp,            \* history: the oracle's last response
    dresult,          \* the Decision returned
    callee,           \* the collaborator method under way (coder.py, researcher.py)
    \* ---- Scheduler (scheduler.py) and the threads that call the Goal Store
    sched_running,    \* self.running
    tpc,              \* where each thread stands in GoalManager.add
    tsnap             \* what each thread's json.dump has serialized

goalVars == <<goals, gstats, goalsFile, gcalled, gmatched, ghist>>
memVars  == <<memory, mstats, memFile, dbMemory, mlast, mret, mfailed>>
busVars  == <<subscribers, published, delivered>>
runVars  == <<pc, iterations, loop_i, iteration_count, decision, pos, collab, reportFile, trace, budget>>
cacheVars == <<cache, max_size, ttl_seconds, cache_enabled, clast>>
retryVars == <<rpc, max_attempts, delay, attempt, rlog, rresult>>
permVars == <<blocked_count, allowed_count, warnings, safety_mode, block_dangerous, plast>>
\* the components beside the stores, the bus and the loop
decVars == <<dpc, api_key, outer_attempt, inner_attempt, dlog, dresp, dresult, callee>>
thrVars == <<sched_running, tpc, tsnap>>
auxVars  == <<cacheVars, retryVars, permVars, decVars, thrVars>>

\* ------------------------------------------------------------------ bounds

MaxTime      == 1     \* clock readings 0..MaxTime
MaxGoals     == 2     \* goals in the store
MaxCount     == 2     \* cap of the completed / failed counters
MaxAdded     == 2     \* Memory Log adds per process
MaxRetrieved == 1     \* counted reads per process
MaxCountArg  == 2     \* largest count passed to get_recent
MaxWriteFailures == 1 \* durable writes that fail
MaxIterations == 2    \* iterations asked of one Jarvis object, over all its runs
MaxRuns == 2          \* calls of run on one Jarvis object
MaxCacheSize == 2     \* largest max_size a CacheManager is built with
MaxTtl == 2           \* largest ttl, passed or configured
MaxCacheTime == 2     \* clock readings of the cache 0..MaxCacheTime
MaxAttempts == 3       \* largest max_attempts a function is wrapped with
MaxDelay == 3          \* largest delay a function is wrapped with
MaxChecks == 3         \* cap of the blocked / allowed counters
MaxSubscribers == 2     \* callbacks subscribed to one event type
MaxPublished == 2       \* events published on one bus
MaxHits == 1          \* hits counted on one entry

\* ------------------------------------------------------------- constants

GOAL_PRIORITY_MEDIUM == 5
STATUS_ACTIVE    == "active"
STATUS_COMPLETED == "completed"
STATUS_BLOCKED   == "blocked"
STATUS_FAILED    == "failed"
ContentCap == 1000        \* truncate(str(content), 1000)
NoTime == -1              \* "completed": None

Min(a, b) == IF a < b THEN a ELSE b
Max(a, b) == IF a > b THEN a ELSE b

\* --------------------------------------------------------- Python values

\* c repeated n times
Chars(c, n) == IF n = 0 THEN <<>> ELSE << <<c, n>> >>

RECURSIVE StrLen(_)
StrLen(s) == IF s = <<>> THEN 0 ELSE s[1][2] + StrLen(Tail(s))

\* a + b
StrCat(a, b) ==
    IF a = <<>> THEN b
    ELSE IF b = <<>> THEN a
    ELSE IF a[Len(a)][1] = b[1][1]
         THEN SubSeq(a, 1, Len(a) - 1)
              \o << <<b[1][1], a[Len(a)][2] + b[1][2]>> >> \o Tail(b)
         ELSE a \o b

\* text[:n], n >= 0
RECURSIVE StrTake(_, _)
StrTake(s, n) ==
    IF n <= 0 \/ s = <<>> THEN <<>>
    ELSE IF s[1][2] <= n THEN <<s[1]>> \o StrTake(Tail(s), n - s[1][2])
    ELSE << <<s[1][1], n>> >>

\* utils.truncate
truncate(text, length) ==
    IF StrLen(text) > length
    THEN StrCat(StrTake(text, length), Chars(".", 3))
    ELSE text

PyNone   == [kind |-> "none"]
PyStr(s) == [kind |-> "str", s |-> s]

\* str(content)
str(v) ==
    IF v.kind = "none"
    THEN << <<"N", 1>>, <<"o", 1>>, <<"n", 1>>, <<"e", 1>> >>
    ELSE v.s

\* seq[start:] with Python's treatment of a negative or too large start
PySliceFrom(seq, start) ==
    LET n == Len(seq)
        s == IF start < 0 THEN Max(start + n, 0) ELSE Min(start, n)
    IN  SubSeq(seq, s + 1, n)

\* a durable document: what json.load reads back, or an unreadable file
Doc(data) == [valid |-> TRUE, data |-> data]
Corrupt   == [valid |-> FALSE, data |-> <<>>]

\* with open(path, 'w') as f: json.dump(data, f) under try/except: the write
\* succeeds, open() fails (file untouched), or the dump fails after open()
\* has truncated the file
WriteOutcomes == {"ok", "open_failed", "partial"}
WriteFile_deferred(old, data, outcome) == old
WriteFile(old, data, outcome) ==
    CASE outcome = "ok"          -> Doc(data)
      [] outcome = "open_failed" -> old
      [] outcome = "partial"     -> Corrupt

\* _load_goals / _load_memory: the document, or [] when it cannot be read
LoadFile(doc) == IF doc.valid THEN doc.data ELSE <<>>

\* datetime.now(): a reading not earlier than the previous one
ClockReadings == now..MaxTime

\* ============================================================ Goal Store

GoalTexts == {"Refactor module X", "Write tests"}
\* ids passed to complete / fail / block: every id add can produce and one
\* sequence position add never reaches
GoalIdInputs == (0..MaxGoals) \X (0..MaxTime)

NewGoal(goal_id, goal, priority, created) ==
    [id |-> goal_id, text |-> goal, priority |-> priority, status |-> STATUS_ACTIVE,
     created |-> created, completed |-> NoTime, attempts |-> 0]

\* for goal in self.goals: if goal["id"] == goal_id: ...; break
\* the position of the first goal with that id, 0 when there is none
FirstMatch(gs, goal_id) ==
    LET hits == {i \in 1..Len(gs) : gs[i].id = goal_id}
    IN  IF hits = {} THEN 0 ELSE CHOOSE i \in hits : \A j \in hits : i <= j

\* a durable write may fail while fewer than MaxWriteFailures have
WriteAllowed(outcome) == outcome = "ok" \/ wfails < MaxWriteFailures
Failures(outcome) == IF outcome = "ok" THEN 0 ELSE 1

_save_goals(outcome) ==
    /\ WriteAllowed(outcome)
    /\ goalsFile' = WriteFile(goalsFile, goals', outcome)
    /\ wfails' = wfails + Failures(outcome)

get_active_with_blocked(gs) ==
    LET act == SelectSeq(gs, LAMBDA g : g.status \in {STATUS_ACTIVE, STATUS_BLOCKED})
    IN  [i \in 1..Len(act) |-> act[i].text]

get_active(gs) ==
    LET act == SelectSeq(gs, LAMBDA g : g.status = STATUS_ACTIVE)
    IN  [i \in 1..Len(act) |-> act[i].text]

get_completed(gs) ==
    LET done == SelectSeq(gs, LAMBDA g : g.status = STATUS_COMPLETED)
    IN  [i \in 1..Len(done) |-> done[i].text]

get_stats(gs, st) ==
    [created |-> st.created, completed |-> st.completed, failed |-> st.failed,
     active |-> Len(get_active(gs)), total |-> Len(gs)]

NoHist == [op |-> "none", id |-> <<0, 0>>, pre |-> get_stats(<<>>, [created |-> 0, completed |-> 0, failed |-> 0])]

\* an id that leaves out the length of the collection
goal_id_timestamp(gs, t) == <<0, t>>

\* goal_id = f"goal_{len(self.goals)}_{datetime.now().timestamp()}"
\* the two numbers the text is made of; the "_" between them keeps them apart
goal_id_of(gs, t) == <<Len(gs), t>>

\* no complete and no fail call has found its goal yet
NoneMatched == [complete |-> 0, fail |-> 0]

\* GoalManager.add
GoalManager_add(goal, priority, outcome) ==
    /\ \E t1 \in ClockReadings : \E t2 \in t1..MaxTime :
          LET goal_id == goal_id_of(goals, t1)
          IN  /\ goals' = Append(goals, NewGoal(goal_id, goal, priority, t2))
              /\ now' = t2
              /\ ghist' = [op |-> "add", id |-> goal_id, pre |-> get_stats(goals, gstats)]
    /\ gstats' = [gstats EXCEPT !.created = @ + 1]
    /\ _save_goals(outcome)
    /\ UNCHANGED <<gcalled, gmatched>>

\* what one matching call leaves of the history of calls
HistAfter(op, goal_id) ==
    IF op = "complete" /\ ghist.op = "add" /\ ghist.id = goal_id
    THEN [ghist EXCEPT !.op = "add_complete"]
    ELSE NoHist

NoMatch_saving(goal_id) ==
    /\ FirstMatch(goals, goal_id) = 0
    /\ ghist' = [NoHist EXCEPT !.op = "no_match"]
    /\ goalsFile' = Doc(goals)
    /\ UNCHANGED <<now, wfails, goals, gstats, gcalled, gmatched>>

\* the loop of complete / fail / block that found no goal with the id
NoMatch(goal_id) ==
    /\ FirstMatch(goals, goal_id) = 0
    /\ ghist' = [NoHist EXCEPT !.op = "no_match"]
    /\ UNCHANGED <<now, wfails, goals, gstats, goalsFile, gcalled, gmatched>>

\* self.stats["completed"] += 1
count_completed_skipped(st) == st
count_completed(st) == [st EXCEPT !.completed = @ + 1]

\* GoalManager.complete
GoalManager_complete(goal_id, outcome) ==
    LET i == FirstMatch(goals, goal_id) IN
    \/ /\ i # 0
       /\ gstats.completed < MaxCount
       /\ \E t \in ClockReadings :
             /\ goals' = [goals EXCEPT ![i].status = STATUS_COMPLETED, ![i].completed = t]
             /\ now' = t
       /\ gstats' = count_completed(gstats)
       /\ _save_goals(outcome)
       /\ gcalled' = gcalled \cup {goal_id}
       /\ gmatched' = [gmatched EXCEPT !.complete = @ + 1]
       /\ ghist' = HistAfter("complete", goal_id)
    \/ NoMatch(goal_id)

\* GoalManager.fail
GoalManager_fail(goal_id, outcome) ==
    LET i == FirstMatch(goals, goal_id) IN
    \/ /\ i # 0
       /\ gstats.failed < MaxCount
       /\ goals' = [goals EXCEPT ![i].status = STATUS_FAILED, ![i].attempts = @ + 1]
       /\ gstats' = [gstats EXCEPT !.failed = @ + 1]
       /\ _save_goals(outcome)
       /\ gcalled' = gcalled \cup {goal_id}
       /\ gmatched' = [gmatched EXCEPT !.fail = @ + 1]
       /\ ghist' = HistAfter("fail", goal_id)
       /\ UNCHANGED now
    \/ NoMatch(goal_id)

\* GoalManager.block
GoalManager_block(goal_id, outcome) ==
    LET i == FirstMatch(goals, goal_id) IN
    \/ /\ i # 0
       /\ goals' = [goals EXCEPT ![i].status = STATUS_BLOCKED]
       /\ _save_goals(outcome)
       /\ gcalled' = gcalled \cup {goal_id}
       /\ ghist' = HistAfter("block", goal_id)
       /\ UNCHANGED <<now, gstats, gmatched>>
    \/ NoMatch(goal_id)

\* the goal documents a previous process can have left at db_path
OldGoal(status, attempts, completed) ==
    [id |-> <<0, 0>>, text |-> "Write tests", priority |-> GOAL_PRIORITY_MEDIUM,
     status |-> status, created |-> 0, completed |-> completed, attempts |-> attempts]
InitGoalFiles ==
    { Doc(<<>>), Corrupt,
      Doc(<<OldGoal(STATUS_ACTIVE, 0, NoTime)>>),
      Doc(<<OldGoal(STATUS_FAILED, 1, NoTime)>>) }

\* GoalManager.__init__
GoalManager_init ==
    /\ goalsFile \in InitGoalFiles
    /\ goals = LoadFile(goalsFile)
    /\ gstats = [created |-> 0, completed |-> 0, failed |-> 0]
    /\ gcalled = {goals[i].id : i \in {j \in 1..Len(goals) : goals[j].status # STATUS_ACTIVE}}
    /\ gmatched = NoneMatched
    /\ ghist = NoHist


\* ============================================================ Memory Log

use_sqlite == TRUE        \* MemoryManager(db_path, use_sqlite=True)

MemTypes == {"decision", "error"}
LongText == Chars("x", ContentCap + 1)
NoMeta == "None"
\* the (event_type, content, metadata) passed to add
MemAddInputs ==
    { <<"decision", PyStr(Chars("a", 1)), NoMeta>>,
      <<"decision", PyNone, "{k: v}">>,
      <<"error", PyStr(Chars("a", 1)), NoMeta>>,
      <<"error", PyStr(LongText), NoMeta>> }
Queries == {Chars("A", 1), Chars("x", 2)}

\* metadata or {}
OrEmpty(metadata) == IF metadata = NoMeta THEN "{}" ELSE metadata
\* json.dumps(metadata or {})
JsonDumps(m) == <<"json", m>>

Event(event_type, content, timestamp, metadata) ==
    [type |-> event_type, content |-> truncate(str(content), ContentCap),
     timestamp |-> timestamp, metadata |-> OrEmpty(metadata)]

\* Database.insert_memory: the row INSERTed (id is the next rowid)
Row(rows, event_type, content, timestamp, metadata) ==
    [id |-> Len(rows) + 1, event_type |-> event_type, content |-> content,
     timestamp |-> timestamp, metadata |-> JsonDumps(OrEmpty(metadata))]

insert_memory(rows, event_type, content, timestamp, metadata) ==
    Append(rows, Row(rows, event_type, content, timestamp, metadata))

_save_memory(outcome) ==
    /\ WriteAllowed(outcome)
    /\ memFile' = WriteFile(memFile, memory', outcome)
    /\ wfails' = wfails + Failures(outcome)

appended_first(mem, event) == <<event>> \o mem

\* self.memory.append(event)
appended(mem, event) == Append(mem, event)

\* MemoryManager.add. db_ok = FALSE: sqlite3 raises inside insert_memory, the
\* exception leaves add before _save_memory runs.
MemoryManager_add(event_type, content, metadata, db_ok, outcome) ==
    /\ db_ok \/ wfails < MaxWriteFailures
    /\ \E t1 \in ClockReadings : \E t2 \in t1..MaxTime :
          /\ memory' = appended(memory, Event(event_type, content, t1, metadata))
          /\ IF use_sqlite /\ db_ok
             THEN /\ dbMemory' = insert_memory(dbMemory, event_type, str(content), t2, metadata)
                  /\ now' = t2
             ELSE /\ dbMemory' = dbMemory
                  /\ now' = t1
    /\ mstats' = [mstats EXCEPT !.added = @ + 1]
    /\ IF use_sqlite /\ ~db_ok
       THEN /\ memFile' = memFile
            /\ wfails' = wfails + 1
            /\ mfailed' = TRUE
       ELSE /\ _save_memory(outcome)
            /\ mfailed' = (mfailed \/ outcome # "ok")
    /\ mlast' = [op |-> "add", raised |-> (use_sqlite /\ ~db_ok)]
    /\ mret' = <<>>

contents(events) == [i \in 1..Len(events) |-> events[i].content]

\* MemoryManager.get_recent
get_recent(mem, count) == contents(PySliceFrom(mem, -count))

MemoryManager_get_recent(count) ==
    /\ mstats.retrieved < MaxRetrieved
    /\ mstats' = [mstats EXCEPT !.retrieved = @ + 1]
    /\ mret' = get_recent(memory, count)
    /\ mlast' = [op |-> "get_recent", count |-> count]
    /\ UNCHANGED <<now, wfails, memory, memFile, dbMemory, mfailed>>

\* MemoryManager.get_by_type
get_by_type(mem, event_type) == SelectSeq(mem, LAMBDA m : m.type = event_type)

MemoryManager_get_by_type(event_type) ==
    /\ mstats.retrieved < MaxRetrieved
    /\ mstats' = [mstats EXCEPT !.retrieved = @ + 1]
    /\ mret' = get_by_type(memory, event_type)
    /\ mlast' = [op |-> "get_by_type"]
    /\ UNCHANGED <<now, wfails, memory, memFile, dbMemory, mfailed>>

\* str.lower() over the characters the model uses
LowerChar(c) == IF c = "A" THEN "a" ELSE IF c = "N" THEN "n" ELSE c
RECURSIVE lower(_)
lower(s) ==
    IF s = <<>> THEN <<>>
    ELSE StrCat(<< <<LowerChar(s[1][1]), s[1][2]>> >>, lower(Tail(s)))

\* needle in hay
Contains(needle, hay) ==
    LET k == Len(needle) IN
    \/ k = 0
    \/ \E p \in 1..Len(hay) :
          /\ p + k - 1 <= Len(hay)
          /\ \A j \in 1..k :
                /\ hay[p + j - 1][1] = needle[j][1]
                /\ IF j = 1 \/ j = k
                   THEN hay[p + j - 1][2] >= needle[j][2]
                   ELSE hay[p + j - 1][2] = needle[j][2]

\* MemoryManager.search
search(mem, query) == SelectSeq(mem, LAMBDA m : Contains(lower(query), lower(m.content)))

MemoryManager_search(query) ==
    /\ mret' = search(memory, query)
    /\ mlast' = [op |-> "search"]
    /\ UNCHANGED <<now, wfails, memory, mstats, memFile, dbMemory, mfailed>>

\* MemoryManager.get_since
get_since(mem, timestamp) == SelectSeq(mem, LAMBDA m : m.timestamp > timestamp)

MemoryManager_get_since(timestamp) ==
    /\ mret' = get_since(memory, timestamp)
    /\ mlast' = [op |-> "get_since"]
    /\ UNCHANGED <<now, wfails, memory, mstats, memFile, dbMemory, mfailed>>

\* MemoryManager.get_stats
events_by_type(mem) ==
    [t \in {mem[i].type : i \in 1..Len(mem)} |->
        Cardinality({i \in 1..Len(mem) : mem[i].type = t})]

memory_get_stats(mem, st) ==
    [total_events |-> Len(mem), events_by_type |-> events_by_type(mem), stats |-> st]

MemoryManager_get_stats ==
    /\ mret' = memory_get_stats(memory, mstats)
    /\ mlast' = [op |-> "get_stats"]
    /\ UNCHANGED <<now, wfails, memory, mstats, memFile, dbMemory, mfailed>>

\* MemoryManager.clear
MemoryManager_clear(outcome) ==
    /\ memory' = <<>>
    /\ _save_memory(outcome)
    /\ mfailed' = (mfailed \/ outcome # "ok")
    /\ mlast' = [op |-> "clear"]
    /\ mret' = <<>>
    /\ UNCHANGED <<now, mstats, dbMemory>>

\* what a previous process can have left: the flat file and the rows of jarvis.db
OldEvent == Event("decision", PyStr(Chars("A", 1)), 0, NoMeta)
OldRow   == Row(<<>>, "decision", Chars("A", 1), 0, NoMeta)
InitMemoryStores ==
    { <<Doc(<<>>), <<>>>>, <<Doc(<<OldEvent>>), <<OldRow>>>>, <<Corrupt, <<OldRow>>>> }

\* MemoryManager.__init__
MemoryManager_init ==
    /\ \E st \in InitMemoryStores : memFile = st[1] /\ dbMemory = st[2]
    /\ memory = LoadFile(memFile)
    /\ mstats = [added |-> 0, retrieved |-> 0]
    /\ mlast = [op |-> "none"]
    /\ mret = <<>>
    /\ mfailed = ~memFile.valid


\* ============================================================= Event Bus

EventTypes ==
    {"code_generated", "code_refactored", "goal_completed", "goal_failed", "reflection_done",
     "research_done", "error_occurred", "iteration_started", "iteration_completed"}

\* a callback: its name and whether calling it raises
Callback(name, raises) == [name |-> name, raises |-> raises]

SubscribersOf(subs, event_type) ==
    IF event_type \in DOMAIN subs THEN subs[event_type] ELSE <<>>

\* the callbacks of a list up to and with the first one that raises
RECURSIVE UpToFirstRaise(_)
UpToFirstRaise(cbs) ==
    IF cbs = <<>> THEN <<>>
    ELSE IF Head(cbs).raises THEN <<Head(cbs)>>
    ELSE <<Head(cbs)>> \o UpToFirstRaise(Tail(cbs))

\* a publish that a raising callback ends
publish_stopping(event_type) ==
    /\ published' = Append(published, event_type)
    /\ delivered' = delivered \o
          [n \in 1..Len(UpToFirstRaise(SubscribersOf(subscribers, event_type))) |->
              <<event_type, SubscribersOf(subscribers, event_type)[n].name>>]
    /\ UNCHANGED subscribers

\* EventBus.publish: every callback of the type is called in order, one that
\* raises is logged and the next one is called; publish returns normally
publish(event_type) ==
    /\ published' = Append(published, event_type)
    /\ delivered' = delivered \o
          [n \in 1..Len(SubscribersOf(subscribers, event_type)) |->
              <<event_type, SubscribersOf(subscribers, event_type)[n].name>>]
    /\ UNCHANGED subscribers

\* EventBus.subscribe
EventBus_subscribe(event_type, callback) ==
    /\ Len(SubscribersOf(subscribers, event_type)) < MaxSubscribers
    /\ subscribers' =
          [t \in DOMAIN subscribers \cup {event_type} |->
              IF t = event_type
              THEN Append(SubscribersOf(subscribers, event_type), callback)
              ELSE subscribers[t]]
    /\ UNCHANGED <<published, delivered>>

\* list.remove(x): without the first item equal to x
RECURSIVE Remove(_, _)
Remove(list, x) ==
    IF list = <<>> THEN <<>>
    ELSE IF Head(list) = x THEN Tail(list)
    ELSE <<Head(list)>> \o Remove(Tail(list), x)

\* EventBus.unsubscribe; for a callback that is not in the type's list
\* list.remove raises ValueError and the bus is as it was
EventBus_unsubscribe(event_type, callback) ==
    /\ subscribers' =
          IF event_type \in DOMAIN subscribers
          THEN [subscribers EXCEPT ![event_type] = Remove(@, callback)]
          ELSE subscribers
    /\ UNCHANGED <<published, delivered>>

\* EventBus.clear
EventBus_clear ==
    /\ subscribers' = <<>>
    /\ UNCHANGED <<published, delivered>>

\* the bus as run() finds it: nobody subscribed, or a raising and a plain
\* callback on the error event and a raising one on the start of a run
InitSubscribers ==
    { <<>>,
      [t \in {"error_occurred", "iteration_started"} |->
          IF t = "error_occurred"
          THEN <<Callback("cb_bad", TRUE), Callback("cb_ok", FALSE)>>
          ELSE <<Callback("cb_bad", TRUE)>>] }

\* ==================================================== Orchestration Loop

A1 == Chars("a", 1)
A2 == Chars("b", 1)
Analysis == Chars("d", 1)
Findings == Chars("f", 1)
Insights == Chars("i", 1)
IterationFailed == Chars("e", 1)      \* f"Iteration failed: {e}"
\* a JSON value where a list is expected: a list, or null
List(items) == [list |-> TRUE, items |-> items]
Null == [list |-> FALSE, items |-> <<>>]

ActionHandlers == {"code_generation", "code_refactor", "research"}
HandlerTypes == ActionHandlers \cup {"reflection", "goal_update"}
ActionTypes == HandlerTypes \cup {"error", "unknown"}

\* what decide_action can return: the parsed object with its defaults filled in
\* (the lists are whatever JSON the oracle sent), or the error decision
Decisions ==
    { [analysis |-> Analysis, action_type |-> t, actions |-> a, goals_update |-> g] :
         t \in ActionTypes, a \in {List(<<>>), List(<<A1, A2>>), Null},
         g \in {List(<<>>), List(<<"Write tests">>), Null} }

\* the decisions the model feeds the loop: the actions vary only where a
\* handler reads them, and a handler that walks actions gets a goal to add
\* exactly when it has actions to walk or none to iterate
DecisionInputs ==
    { d \in Decisions :
         /\ d.action_type \notin ActionHandlers => d.actions = List(<<>>)
         /\ d.action_type \in ActionHandlers =>
               (d.actions = List(<<>>)) = (d.goals_update = List(<<>>))
         /\ d.action_type \in ActionHandlers => d.goals_update # Null
         /\ d.action_type = "error" => d.goals_update = List(<<>>) }

NoDecision ==
    [analysis |-> Analysis, action_type |-> "none", actions |-> List(<<>>),
     goals_update |-> List(<<>>)]

Note(entry) == trace' = Append(trace, entry)

memoryUntouched == UNCHANGED <<now, wfails, memVars>>
goalsUntouched  == UNCHANGED goalVars

\* Jarvis.run up to the loop: publish(ITERATION_STARTED)
run(n) ==
    /\ pc = "idle"
    /\ n <= budget
    /\ Cardinality({k \in 1..Len(trace) : trace[k][1] = "run"}) < MaxRuns
    /\ budget' = budget - n
    /\ iterations' = n
    /\ loop_i' = 0
    /\ publish("iteration_started")
    /\ pc' = "loop"
    /\ Note(<<"run", n>>)
    /\ UNCHANGED <<iteration_count, decision, pos, collab, reportFile>>
    /\ memoryUntouched /\ goalsUntouched

\* for i in range(iterations): self.iteration_count = i + 1, then
\* _execute_iteration up to decide_action, which reads get_recent(10) and
\* get_active() and never raises
iterate(d) ==
    /\ pc = "loop"
    /\ loop_i < iterations
    /\ loop_i' = loop_i + 1
    /\ iteration_count' = loop_i + 1
    /\ mstats' = [mstats EXCEPT !.retrieved = @ + 1]
    /\ mret' = get_recent(memory, 10)
    /\ mlast' = [op |-> "get_recent", count |-> 10]
    /\ decision' = d
    /\ pc' = "decided"
    /\ Note(<<"iteration", loop_i + 1>>)
    /\ UNCHANGED <<now, wfails, memory, memFile, dbMemory, mfailed>>
    /\ UNCHANGED <<iterations, pos, collab, reportFile, budget>>
    /\ UNCHANGED busVars /\ goalsUntouched

\* a dispatch that starts before the decision is recorded
record_decision_skipped(db_ok, outcome) ==
    /\ pc = "decided"
    /\ pc' = "dispatch"
    /\ pos' = 0
    /\ UNCHANGED <<iterations, loop_i, iteration_count, decision, collab, reportFile, trace, budget>>
    /\ UNCHANGED busVars /\ memoryUntouched /\ goalsUntouched

\* self.memory.add("decision", decision.get("analysis")): an INSERT that
\* fails raises out of _execute_iteration
record_decision(db_ok, outcome) ==
    /\ pc = "decided"
    /\ MemoryManager_add("decision", PyStr(decision.analysis), NoMeta, db_ok, outcome)
    /\ IF db_ok
       THEN pc' = "dispatch" /\ UNCHANGED trace
       ELSE pc' = "except" /\ Note(<<"raised", iteration_count>>)
    /\ pos' = 0
    /\ UNCHANGED <<iterations, loop_i, iteration_count, decision, collab, reportFile, budget>>
    /\ UNCHANGED busVars /\ goalsUntouched

\* an action_type with no handler: nothing is dispatched
dispatch_none ==
    /\ pc = "dispatch"
    /\ decision.action_type \notin HandlerTypes
    /\ pc' = "goals_update"
    /\ UNCHANGED <<iterations, loop_i, iteration_count, decision, pos, collab, reportFile, trace, budget>>
    /\ UNCHANGED busVars /\ memoryUntouched /\ goalsUntouched

\* for ... in decision.get(...): iterating a value that is no list raises
\* outside the per-action try
dispatch_raises ==
    /\ pc = "dispatch"
    /\ \/ decision.action_type \in ActionHandlers /\ decision.actions = Null
       \/ decision.action_type = "goal_update" /\ decision.goals_update = Null
    /\ pc' = "except"
    /\ Note(<<"raised", iteration_count>>)
    /\ UNCHANGED <<iterations, loop_i, iteration_count, decision, pos, collab, reportFile, budget>>
    /\ UNCHANGED busVars /\ memoryUntouched /\ goalsUntouched

\* the handler's loop has walked its whole list
dispatch_done ==
    /\ pc = "dispatch"
    /\ \/ decision.action_type \in ActionHandlers
          /\ decision.actions # Null /\ pos = Len(decision.actions.items)
       \/ decision.action_type = "goal_update"
          /\ decision.goals_update # Null /\ pos = Len(decision.goals_update.items)
    /\ pc' = "goals_update"
    /\ pos' = 0
    /\ UNCHANGED <<iterations, loop_i, iteration_count, decision, collab, reportFile, trace, budget>>
    /\ UNCHANGED busVars /\ memoryUntouched /\ goalsUntouched

HasAction ==
    /\ pc = "dispatch"
    /\ decision.actions # Null
    /\ pos < Len(decision.actions.items)

\* a failure of the collaborator that leaves the handler
action_skipped_aborting(counters) ==
    /\ collab' = counters
    /\ pc' = "except"
    /\ Note(<<"raised", iteration_count>>)
    /\ UNCHANGED <<iterations, loop_i, iteration_count, decision, pos, reportFile, budget>>
    /\ UNCHANGED busVars /\ memoryUntouched /\ goalsUntouched

\* the collaborator raised, or the safety check refused the code: the action
\* is over with nothing recorded
action_skipped(counters) ==
    /\ collab' = counters
    /\ pos' = pos + 1
    /\ pc' = "dispatch"
    /\ UNCHANGED <<iterations, loop_i, iteration_count, decision, reportFile, trace, budget>>
    /\ UNCHANGED busVars /\ memoryUntouched /\ goalsUntouched

\* the action's outcome is recorded; a failing INSERT is caught by the
\* per-action try
action_recorded(counters, event_type, content, db_ok, outcome) ==
    /\ MemoryManager_add(event_type, PyStr(content), NoMeta, db_ok, outcome)
    /\ collab' = counters
    /\ pos' = pos + 1
    /\ pc' = "dispatch"
    /\ UNCHANGED <<iterations, loop_i, iteration_count, decision, reportFile, trace, budget>>
    /\ UNCHANGED busVars /\ goalsUntouched

\* a turn that executes and records the code whatever the check answered
_handle_code_generation_ungated(generated, safe, db_ok, outcome) ==
    /\ HasAction /\ decision.action_type = "code_generation"
    /\ LET gen == IF generated
                  THEN [collab EXCEPT !.generation_count = @ + 1] ELSE collab
           chk == IF safe THEN [gen EXCEPT !.allowed_count = @ + 1]
                  ELSE [gen EXCEPT !.blocked_count = @ + 1]
           exe == [chk EXCEPT !.execution_count = @ + 1]
       IN  IF ~generated THEN action_skipped(gen)
           ELSE action_recorded(exe, "code_generated", decision.actions.items[pos + 1], db_ok, outcome)

\* one turn of the loop of _handle_code_generation. generated: coder.generate
\* returned code (each prompt of a decision is new to the cache); safe:
\* check_code_safety's answer for it
_handle_code_generation(generated, safe, db_ok, outcome) ==
    /\ HasAction /\ decision.action_type = "code_generation"
    /\ LET gen == IF generated
                  THEN [collab EXCEPT !.generation_count = @ + 1] ELSE collab
           chk == IF safe THEN [gen EXCEPT !.allowed_count = @ + 1]
                  ELSE [gen EXCEPT !.blocked_count = @ + 1]
           exe == [chk EXCEPT !.execution_count = @ + 1]
       IN  IF ~generated THEN action_skipped(gen)
           ELSE IF ~safe THEN action_skipped(chk)
           ELSE action_recorded(exe, "code_generated", decision.actions.items[pos + 1], db_ok, outcome)

\* one turn of the loop of _handle_code_refactor. coder.refactor returns the
\* code it was given when the oracle fails, so it never raises for a string
_handle_code_refactor(refactored, db_ok, outcome) ==
    /\ HasAction /\ decision.action_type = "code_refactor"
    /\ action_recorded(IF refactored THEN [collab EXCEPT !.refactor_count = @ + 1] ELSE collab,
                       "code_refactored", decision.actions.items[pos + 1], db_ok, outcome)

\* one turn of the loop of _handle_research
_handle_research(found, db_ok, outcome) ==
    /\ HasAction /\ decision.action_type = "research"
    /\ IF ~found THEN action_skipped(collab)
       ELSE action_recorded([collab EXCEPT !.research_count = @ + 1],
                            "research", Findings, db_ok, outcome)

\* _handle_reflection, first half: reflector.analyze() reads get_by_type
\* twice on each of its attempts (retry: 2) and returns the insights or raises
\* after the second attempt
analyze(attempts, analyzed) ==
    /\ pc = "dispatch" /\ decision.action_type = "reflection"
    /\ analyzed \/ attempts = 2
    /\ mstats' = [mstats EXCEPT !.retrieved = @ + 2 * attempts]
    /\ mret' = get_by_type(memory, "code_generated")
    /\ mlast' = [op |-> "get_by_type"]
    /\ collab' = IF analyzed THEN [collab EXCEPT !.reflection_count = @ + 1] ELSE collab
    /\ pc' = IF analyzed THEN "reflected" ELSE "goals_update"
    /\ UNCHANGED <<now, wfails, memory, memFile, dbMemory, mfailed>>
    /\ UNCHANGED <<iterations, loop_i, iteration_count, decision, pos, reportFile, trace, budget>>
    /\ UNCHANGED busVars /\ goalsUntouched

\* _handle_reflection, second half: self.memory.add("reflection", insights),
\* a failing INSERT caught by the handler's try
_handle_reflection(db_ok, outcome) ==
    /\ pc = "reflected"
    /\ MemoryManager_add("reflection", PyStr(Insights), NoMeta, db_ok, outcome)
    /\ pc' = "goals_update"
    /\ UNCHANGED <<iterations, loop_i, iteration_count, decision, pos, collab, reportFile, trace, budget>>
    /\ UNCHANGED busVars /\ goalsUntouched

\* one turn of the loop of _handle_goal_update
_handle_goal_update(outcome) ==
    /\ pc = "dispatch" /\ decision.action_type = "goal_update"
    /\ decision.goals_update # Null
    /\ pos < Len(decision.goals_update.items)
    /\ GoalManager_add(decision.goals_update.items[pos + 1], GOAL_PRIORITY_MEDIUM, outcome)
    /\ pos' = pos + 1
    /\ pc' = "dispatch"
    /\ UNCHANGED <<iterations, loop_i, iteration_count, decision, collab, reportFile, trace, budget>>
    /\ UNCHANGED busVars /\ UNCHANGED memVars

\* for new_goal in decision.get("goals_update", []): self.goals.add(new_goal)
update_goals(outcome) ==
    /\ pc = "goals_update"
    /\ decision.goals_update # Null
    /\ pos < Len(decision.goals_update.items)
    /\ GoalManager_add(decision.goals_update.items[pos + 1], GOAL_PRIORITY_MEDIUM, outcome)
    /\ pos' = pos + 1
    /\ pc' = "goals_update"
    /\ UNCHANGED <<iterations, loop_i, iteration_count, decision, collab, reportFile, trace, budget>>
    /\ UNCHANGED busVars /\ UNCHANGED memVars

update_goals_raises ==
    /\ pc = "goals_update"
    /\ decision.goals_update = Null
    /\ pc' = "except"
    /\ Note(<<"raised", iteration_count>>)
    /\ UNCHANGED <<iterations, loop_i, iteration_count, decision, pos, collab, reportFile, budget>>
    /\ UNCHANGED busVars /\ memoryUntouched /\ goalsUntouched

\* _execute_iteration returns: back to the for statement
iteration_done ==
    /\ pc = "goals_update"
    /\ decision.goals_update # Null
    /\ pos = Len(decision.goals_update.items)
    /\ pc' = "loop"
    /\ decision' = NoDecision
    /\ pos' = 0
    /\ Note(<<"finished", iteration_count>>)
    /\ UNCHANGED <<iterations, loop_i, iteration_count, collab, reportFile, budget>>
    /\ UNCHANGED busVars /\ memoryUntouched /\ goalsUntouched

\* except Exception in run: memory.add("error", ...) then
\* publish(ERROR_OCCURRED). The add is inside no try: an INSERT that fails
\* raises out of run before the event is published.
iteration_failed(db_ok, outcome) ==
    /\ pc = "except"
    /\ MemoryManager_add("error", PyStr(IterationFailed), NoMeta, db_ok, outcome)
    /\ IF db_ok
       THEN /\ publish("error_occurred")
            /\ pc' = "loop"
            /\ Note(<<"error_recorded", iteration_count>>)
       ELSE /\ UNCHANGED busVars
            /\ pc' = "raised"
            /\ Note(<<"run_raised", iteration_count>>)
    /\ decision' = NoDecision
    /\ pos' = 0
    /\ UNCHANGED <<iterations, loop_i, iteration_count, collab, reportFile, budget>>
    /\ goalsUntouched

coder_get_stats(c) ==
    [codes_generated |-> c.generation_count, codes_refactored |-> c.refactor_count,
     total_operations |-> c.generation_count + c.refactor_count]

\* dry runs never count as successes
executor_get_stats(c) ==
    [total_executions |-> c.execution_count, successful |-> 0, failed |-> c.execution_count]

\* the report _generate_report builds
Report ==
    [total_iterations |-> iteration_count,
     goals    |-> get_stats(goals, gstats),
     memory   |-> memory_get_stats(memory, mstats),
     coder    |-> coder_get_stats(collab),
     executor |-> executor_get_stats(collab)]

\* the loop is over: _generate_report (a failed write of the report is
\* logged), publish(ITERATION_COMPLETED), and run returns
generate_report(outcome) ==
    /\ pc = "loop"
    /\ loop_i = iterations
    /\ reportFile' = WriteFile(reportFile, Report, outcome)
    /\ publish("iteration_completed")
    /\ pc' = "idle"
    /\ Note(<<"report", iteration_count>>)
    /\ UNCHANGED <<iterations, loop_i, iteration_count, decision, pos, collab, budget>>
    /\ memoryUntouched /\ goalsUntouched

\* the installations run() is studied on: a first start with nobody
\* subscribed, and a restart over stored goals and events with subscribers
Installations ==
    { <<Doc(<<>>), Doc(<<>>), <<>>, <<>>>>,
      <<Doc(<<OldGoal(STATUS_ACTIVE, 0, NoTime)>>), Doc(<<OldEvent>>), <<OldRow>>,
        [t \in {"error_occurred", "iteration_started"} |->
            IF t = "error_occurred"
            THEN <<Callback("cb_bad", TRUE), Callback("cb_ok", FALSE)>>
            ELSE <<Callback("cb_bad", TRUE)>>]>> }

\* Jarvis.__init__ has succeeded
Jarvis_init ==
    /\ now = MaxTime /\ wfails = 0
    /\ GoalManager_init
    /\ MemoryManager_init
    /\ subscribers \in InitSubscribers
    /\ <<goalsFile, memFile, dbMemory, subscribers>> \in Installations
    /\ published = <<>> /\ delivered = <<>>
    /\ pc = "idle"
    /\ iterations = 0 /\ loop_i = 0
    /\ iteration_count = 0
    /\ decision = NoDecision
    /\ pos = 0
    /\ collab = [generation_count |-> 0, refactor_count |-> 0, execution_count |-> 0,
                 research_count |-> 0, reflection_count |-> 0,
                 blocked_count |-> 0, allowed_count |-> 0]
    /\ reportFile = Doc(<<>>)
    /\ trace = <<>>
    /\ budget = MaxIterations

\* ================================================================= Cache

CacheKeys == {"k1", "k2", "k3"}
CacheValues == {"v1", "v2"}
Absent == "None"          \* return None
NoTtl == -1               \* ttl: Optional[int] = None
TtlInputs == {NoTtl} \cup 0..MaxTtl

\* datetime.now() in the cache: a reading not earlier than the previous one
CacheClock == now..MaxCacheTime

Keys(c) == {c[i].key : i \in 1..Len(c)}
IndexOf(c, key) == CHOOSE i \in 1..Len(c) : c[i].key = key
Without(c, i) == SubSeq(c, 1, i - 1) \o SubSeq(c, i + 1, Len(c))

\* self.cache[key] = entry: in place for a key of the dict, at the end otherwise
Assign(c, entry) ==
    IF entry.key \in Keys(c)
    THEN [c EXCEPT ![IndexOf(c, entry.key)] = entry]
    ELSE Append(c, entry)

\* ttl or self.ttl_seconds
OrDefault(ttl, default) == IF ttl = NoTtl \/ ttl = 0 THEN default ELSE ttl

\* the first key in dict order among those with the fewest hits
OldestIndex_least_hit(c) ==
    CHOOSE i \in 1..Len(c) :
        /\ \A j \in 1..Len(c) : c[i].hits <= c[j].hits
        /\ \A j \in 1..(i - 1) : c[j].hits > c[i].hits

\* min(self.cache.keys(), key=created_at): the first key in dict order among
\* those with the smallest created_at
OldestIndex(c) ==
    CHOOSE i \in 1..Len(c) :
        /\ \A j \in 1..Len(c) : c[i].created_at <= c[j].created_at
        /\ \A j \in 1..(i - 1) : c[j].created_at > c[i].created_at

\* an eviction that removes nothing
_evict_oldest_nothing(c) == c

\* CacheManager._evict_oldest
_evict_oldest(c) == Without(c, OldestIndex(c))

\* an expiry test that never fires
Expired_never(t, entry) == FALSE

\* an expiry test that fires at the deadline itself
Expired_at_deadline(t, entry) == t >= entry.expires_at

\* datetime.now() > entry["expires_at"]
Expired(t, entry) == t > entry.expires_at

\* a configuration test that never fires
Disabled_never == FALSE

\* not CACHE_ENABLED
Disabled == ~cache_enabled

\* CacheManager.get; clast keeps the branch taken and the value returned
CacheManager_get(key) ==
    /\ IF Disabled
       THEN /\ clast' = [op |-> "get", key |-> key, path |-> "disabled", result |-> Absent]
            /\ UNCHANGED <<now, cache>>
       ELSE IF key \notin Keys(cache)
       THEN /\ clast' = [op |-> "get", key |-> key, path |-> "missing", result |-> Absent]
            /\ UNCHANGED <<now, cache>>
       ELSE LET i == IndexOf(cache, key) IN
            \E t \in CacheClock :
               /\ now' = t
               /\ IF Expired(t, cache[i])
                  THEN /\ cache' = Without(cache, i)
                       /\ clast' = [op |-> "get", key |-> key, path |-> "expired",
                                    result |-> Absent]
                  ELSE /\ cache[i].hits < MaxHits
                       /\ cache' = [cache EXCEPT ![i].hits = @ + 1]
                       /\ clast' = [op |-> "get", key |-> key, path |-> "hit",
                                    result |-> cache[i].value]
    /\ UNCHANGED <<max_size, ttl_seconds, cache_enabled>>

\* CacheManager.set; clast keeps the value and ttl passed and the entry the call
\* evicted, if any
CacheManager_set(key, value, ttl) ==
    /\ IF Disabled
       THEN /\ clast' = [op |-> "set", key |-> key, value |-> value, ttl |-> ttl,
                         evicted |-> <<>>]
            /\ UNCHANGED <<now, cache>>
       ELSE LET full == Len(cache) >= max_size
                kept == IF full THEN _evict_oldest(cache) ELSE cache
                oldest == cache[OldestIndex(cache)] IN
            \E t1 \in CacheClock : \E t2 \in t1..MaxCacheTime :
               /\ cache' = Assign(kept, [key |-> key, value |-> value, created_at |-> t1,
                                         expires_at |-> t2 + OrDefault(ttl, ttl_seconds),
                                         hits |-> 0])
               /\ now' = t2
               /\ clast' = [op |-> "set", key |-> key, value |-> value, ttl |-> ttl,
                            evicted |-> IF full
                                        THEN <<[key |-> oldest.key, hits |-> oldest.hits]>>
                                        ELSE <<>>]
    /\ UNCHANGED <<max_size, ttl_seconds, cache_enabled>>

\* CacheManager.delete
CacheManager_delete(key) ==
    /\ cache' = IF key \in Keys(cache) THEN Without(cache, IndexOf(cache, key)) ELSE cache
    /\ clast' = [op |-> "delete", key |-> key]
    /\ UNCHANGED <<now, max_size, ttl_seconds, cache_enabled>>

\* CacheManager.clear
CacheManager_clear ==
    /\ cache' = <<>>
    /\ clast' = [op |-> "clear"]
    /\ UNCHANGED <<now, max_size, ttl_seconds, cache_enabled>>

\* CacheManager.__init__, under either setting of CACHE_ENABLED
CacheManager_init ==
    /\ cache = <<>>
    /\ max_size \in 1..MaxCacheSize
    /\ ttl_seconds \in 1..MaxTtl
    /\ cache_enabled \in BOOLEAN
    /\ clast = [op |-> "none"]

\* the cache nobody has called: the module's instance
CacheIdle ==
    /\ cache = <<>> /\ max_size = MaxCacheSize /\ ttl_seconds = MaxTtl
    /\ cache_enabled = TRUE /\ clast = [op |-> "none"]

\* ================================================================= retry

RECURSIVE Pow2(_)
Pow2(n) == IF n = 0 THEN 1 ELSE 2 * Pow2(n - 1)

Errors == {"e1", "e2"}          \* the exceptions func raises
Returns == {"r1", "r2"}         \* the values func returns
\* func(*args, **kwargs): it returns a value or raises an Exception
Outcomes == [raised : {TRUE}, error : Errors] \cup [raised : {FALSE}, value : Returns]

\* a wait that does not grow
wait_time_constant(n) == delay

\* wait_time = delay * (2 ** attempt)
wait_time(n) == delay * Pow2(n)

\* a last-attempt test that never fires
IsLastAttempt_never == FALSE

\* attempt == max_attempts - 1
IsLastAttempt == attempt = max_attempts - 1

\* wrapper is called: the for loop starts
wrapper_enter ==
    /\ rpc \in {"idle", "returned", "raised"}
    /\ rpc' = "loop" /\ attempt' = 0 /\ rlog' = <<>> /\ rresult' = Absent
    /\ UNCHANGED <<max_attempts, delay>>

\* one round of the for loop: func returns, or raises and the wrapper either
\* re-raises or sleeps and goes on
wrapper_attempt(outcome) ==
    /\ rpc = "loop" /\ attempt < max_attempts
    /\ IF ~outcome.raised
       THEN /\ rpc' = "returned" /\ rresult' = outcome.value
            /\ rlog' = Append(rlog, [ev |-> "call", outcome |-> outcome])
            /\ UNCHANGED attempt
       ELSE IF IsLastAttempt
       THEN /\ rpc' = "raised" /\ rresult' = outcome.error
            /\ rlog' = Append(rlog, [ev |-> "call", outcome |-> outcome])
            /\ UNCHANGED attempt
       ELSE /\ rlog' = rlog \o << [ev |-> "call", outcome |-> outcome],
                                  [ev |-> "sleep", seconds |-> wait_time(attempt)] >>
            /\ attempt' = attempt + 1
            /\ UNCHANGED <<rpc, rresult>>
    /\ UNCHANGED <<max_attempts, delay>>

\* range(max_attempts) is exhausted: wrapper falls off its end and returns None
wrapper_exhausted ==
    /\ rpc = "loop" /\ attempt >= max_attempts
    /\ rpc' = "returned" /\ rresult' = Absent
    /\ UNCHANGED <<max_attempts, delay, attempt, rlog>>

\* retry(max_attempts, delay)(func)
retry_init ==
    /\ max_attempts \in 0..MaxAttempts
    /\ delay \in 1..MaxDelay
    /\ rpc = "idle" /\ attempt = 0 /\ rlog = <<>> /\ rresult = Absent

\* a wrapped function nobody calls: retry's defaults
RetryIdle ==
    /\ max_attempts = MaxAttempts /\ delay = 1
    /\ rpc = "idle" /\ attempt = 0 /\ rlog = <<>> /\ rresult = Absent

\* =========================================================== permissions

\* PermissionManager.DANGEROUS_PATTERNS
DANGEROUS_PATTERNS ==
    << "__import__", "eval\\(", "exec\\(", "compile\\(", "os\\.system",
       "subprocess\\.call", "open\\([\"\\']", "rm\\s+-rf", "del\\s+" >>

\* the texts checked and, for each, the patterns re.search finds in it under
\* re.IGNORECASE
Found ==
    [code \in {"print('hello')", "os.system('rm -rf /')", "EVAL(x)",
               "del x; __import__('os')", "model = 1", "evaluate(x)"} |->
        CASE code = "os.system('rm -rf /')" -> {5, 8}
          [] code = "EVAL(x)" -> {2}
          [] code = "del x; __import__('os')" -> {1, 9}
          [] code = "model = 1" -> {9}
          [] OTHER -> {}]
Codes == DOMAIN Found

\* a search that takes eval\( for the letters eval
Search_letters(i, code) == i \in Found[code] \/ (i = 2 /\ code = "evaluate(x)")

\* re.search(pattern, code, re.IGNORECASE)
Search(i, code) == i \in Found[code]

\* for pattern in self.DANGEROUS_PATTERNS: the first pattern from i on that
\* is found in code, 0 when the loop ends without one
RECURSIVE FirstPattern(_, _)
FirstPattern(code, i) ==
    IF i > Len(DANGEROUS_PATTERNS) THEN 0
    ELSE IF Search(i, code) THEN i
    ELSE FirstPattern(code, i + 1)

\* f"Dangerous pattern detected: {pattern}"
Warning(pattern) == <<"Dangerous pattern detected: ", pattern>>

\* a verdict that refuses whatever the configuration
Verdict_refuse == FALSE

\* not BLOCK_DANGEROUS_CODE
Verdict == ~block_dangerous

\* a bypass test that never fires
SafetyOff_never == FALSE

\* not SAFETY_MODE
SafetyOff == ~safety_mode

\* PermissionManager.check_code_safety
check_code_safety(code) ==
    /\ IF SafetyOff
       THEN /\ plast' = [op |-> "check", code |-> code, result |-> TRUE, scans |-> plast.scans]
            /\ UNCHANGED <<blocked_count, allowed_count, warnings>>
       ELSE LET m == FirstPattern(code, 1) IN
            IF m # 0
            THEN /\ blocked_count < MaxChecks
                 /\ warnings' = Append(warnings, Warning(DANGEROUS_PATTERNS[m]))
                 /\ blocked_count' = blocked_count + 1
                 /\ plast' = [op |-> "check", code |-> code, result |-> Verdict,
                               scans |-> plast.scans + 1]
                 /\ UNCHANGED allowed_count
            ELSE /\ allowed_count < MaxChecks
                 /\ allowed_count' = allowed_count + 1
                 /\ plast' = [op |-> "check", code |-> code, result |-> TRUE,
                               scans |-> plast.scans + 1]
                 /\ UNCHANGED <<blocked_count, warnings>>
    /\ UNCHANGED <<safety_mode, block_dangerous>>

\* PermissionManager.__init__, under any setting of SAFETY_MODE and
\* BLOCK_DANGEROUS_CODE
PermissionManager_init ==
    /\ blocked_count = 0 /\ allowed_count = 0 /\ warnings = <<>>
    /\ safety_mode \in BOOLEAN /\ block_dangerous \in BOOLEAN
    /\ plast = [op |-> "none", scans |-> 0]

\* a PermissionManager nobody calls, under the shipped configuration
PermIdle ==
    /\ blocked_count = 0 /\ allowed_count = 0 /\ warnings = <<>>
    /\ safety_mode = TRUE /\ block_dangerous = TRUE
    /\ plast = [op |-> "none", scans |-> 0]

\* ======================================================= Decision Engine

DECIDE_ATTEMPTS == 3          \* @retry(max_attempts=3, delay=1.0) on decide_action
COMPLETION_ATTEMPTS == 3      \* @retry(max_attempts=3, delay=1.0) on create_completion
RETRY_DELAY == 1              \* delay=1.0, in seconds
DEFAULT_CONFIDENCE == 5       \* 0.5, in tenths

\* JSON values: numbers (confidences in tenths), strings (as their pieces) and
\* arrays of strings
JNumber(n) == [type |-> "number", num |-> n, str |-> <<>>, items |-> <<>>]
JString(pieces) == [type |-> "string", num |-> 0, str |-> pieces, items |-> <<>>]
JArray(items) == [type |-> "array", num |-> 0, str |-> <<>>, items |-> items]

DecisionFields == {"analysis", "action_type", "actions", "goals_update", "confidence"}
EmptyObject == [k \in {} |-> JNumber(0)]

\* what the oracle may put in a field: a well-formed value or one of another
\* type, range or tag
FieldValues ==
    [k \in DecisionFields |->
        CASE k = "analysis" -> {JString(<<"looks fine">>)}
          [] k = "action_type" -> {JString(<<"research">>), JString(<<"deploy">>)}
          [] k = "actions" -> {JArray(<<"a1">>), JString(<<"a1">>)}
          [] k = "goals_update" -> {JArray(<<"g1">>)}
          [] k = "confidence" -> {JNumber(9), JNumber(70), JString(<<"high">>)}]

\* the JSON objects the oracle may answer with: any subset of the fields
Objects ==
    UNION { { o \in [D -> UNION {FieldValues[k] : k \in DecisionFields}] :
                \A k \in D : o[k] \in FieldValues[k] } : D \in SUBSET DecisionFields }

\* response.choices[0].message.content: text that is no JSON, a JSON array, or
\* a JSON object
Texts ==
    {[json |-> "malformed", fields |-> EmptyObject], [json |-> "array", fields |-> EmptyObject]}
        \cup {[json |-> "object", fields |-> o] : o \in Objects}

\* self._client.chat.completions.create: it raises or returns a response
NoText == [json |-> "none", fields |-> EmptyObject]
OracleResponses ==
    {[kind |-> "fails", error |-> e, text |-> NoText] : e \in Errors}
        \cup {[kind |-> "text", error |-> "", text |-> t] : t \in Texts}
NoResponse == [kind |-> "none", error |-> "", text |-> NoText]

OracleCall(out) == [ev |-> "oracle", seconds |-> 0, out |-> out]
Sleep(seconds) == [ev |-> "sleep", seconds |-> seconds, out |-> ""]

\* the dict of the two except blocks of decide_action
ErrorDecision(analysis) ==
    [k \in DecisionFields |->
        CASE k = "analysis" -> JString(analysis)
          [] k = "action_type" -> JString(<<"error">>)
          [] k = "actions" -> JArray(<<>>)
          [] k = "goals_update" -> JArray(<<>>)
          [] k = "confidence" -> JNumber(0)]

\* a parse-error dict with the default confidence
ParseErrorDecision_half ==
    [ErrorDecision(<<"Error parsing response">>) EXCEPT !["confidence"] = JNumber(DEFAULT_CONFIDENCE)]

\* except json.JSONDecodeError
ParseErrorDecision == ErrorDecision(<<"Error parsing response">>)

\* result.setdefault(key, default)
setdefault(result, key, default) ==
    IF key \in DOMAIN result THEN result
    ELSE [k \in DOMAIN result \cup {key} |-> IF k = key THEN default ELSE result[k]]

\* the four setdefault calls of decide_action
Validate(result) ==
    setdefault(setdefault(setdefault(setdefault(result,
        "confidence", JNumber(DEFAULT_CONFIDENCE)),
        "action_type", JString(<<"unknown">>)),
        "actions", JArray(<<>>)),
        "goals_update", JArray(<<>>))

\* json.loads and the lines after it, with the except blocks they can reach
Parsed(text) ==
    CASE text.json = "malformed" -> ParseErrorDecision
      [] text.json = "array" ->
            ErrorDecision(<<"'list' object has no attribute 'setdefault'">>)
      [] OTHER -> Validate(text.fields)

\* a last-attempt test of create_completion that fires on the first attempt
CompletionLastAttempt_first == inner_attempt = 0

\* attempt == max_attempts - 1 in the wrapper of create_completion
CompletionLastAttempt == inner_attempt = COMPLETION_ATTEMPTS - 1

\* no collaborator method is under way
NoCallee == [name |-> "none", attempts |-> 0, key |-> ""]

\* the wrapper of decide_action is called
decide_enter ==
    /\ dpc \in {"idle", "returned", "raised"}
    /\ dpc' = "outer" /\ outer_attempt' = 0 /\ inner_attempt' = 0
    /\ dlog' = <<>> /\ dresp' = NoResponse /\ dresult' = EmptyObject
    /\ UNCHANGED <<api_key, callee>>

\* one round of the wrapper of decide_action: get_api_client() returns the
\* client, or raises APIError outside the try of decide_action and the wrapper
\* re-raises or sleeps and goes on
decide_attempt ==
    /\ dpc = "outer"
    /\ IF api_key
       THEN /\ dpc' = "inner" /\ inner_attempt' = 0
            /\ UNCHANGED <<outer_attempt, dlog>>
       ELSE IF outer_attempt = DECIDE_ATTEMPTS - 1
       THEN /\ dpc' = "raised"
            /\ UNCHANGED <<outer_attempt, inner_attempt, dlog>>
       ELSE /\ dlog' = Append(dlog, Sleep(RETRY_DELAY * Pow2(outer_attempt)))
            /\ outer_attempt' = outer_attempt + 1
            /\ UNCHANGED <<dpc, inner_attempt>>
    /\ UNCHANGED <<api_key, dresp, dresult, callee>>

\* one round of the wrapper of create_completion: the oracle answers and
\* decide_action parses the answer, or the oracle fails and the wrapper sleeps
\* and goes on, or raises APIError into the except Exception of decide_action
completion_attempt(resp) ==
    /\ dpc = "inner"
    /\ dresp' = resp
    /\ IF resp.kind = "text"
       THEN /\ dlog' = Append(dlog, OracleCall("text"))
            /\ dresult' = Parsed(resp.text)
            /\ dpc' = "returned"
            /\ UNCHANGED inner_attempt
       ELSE IF CompletionLastAttempt
       THEN /\ dlog' = Append(dlog, OracleCall(resp.error))
            /\ dresult' = ErrorDecision(<<"API request failed: ", resp.error>>)
            /\ dpc' = "returned"
            /\ UNCHANGED inner_attempt
       ELSE /\ dlog' = dlog \o <<OracleCall(resp.error),
                                 Sleep(RETRY_DELAY * Pow2(inner_attempt))>>
            /\ inner_attempt' = inner_attempt + 1
            /\ UNCHANGED <<dpc, dresult>>
    /\ UNCHANGED <<api_key, outer_attempt, callee>>

\* the process starts with or without OPENAI_API_KEY
decide_init ==
    /\ api_key \in BOOLEAN
    /\ dpc = "idle" /\ outer_attempt = 0 /\ inner_attempt = 0
    /\ dlog = <<>> /\ dresp = NoResponse /\ dresult = EmptyObject
    /\ callee = NoCallee

\* decide_action never called
DecideIdle ==
    /\ api_key = TRUE
    /\ dpc = "idle" /\ outer_attempt = 0 /\ inner_attempt = 0
    /\ dlog = <<>> /\ dresp = NoResponse /\ dresult = EmptyObject
    /\ callee = NoCallee

\* ========================================================= collaborators

GENERATE_ATTEMPTS == 3    \* @retry(max_attempts=3, delay=1.0) on Coder.generate
SEARCH_ATTEMPTS == 2      \* @retry(max_attempts=2, delay=1.0) on Researcher.search

\* Coder.generate(specification) and Researcher.search(query), each with the
\* attempts of its retry wrapper and its cache_key
Methods ==
    { [name |-> "generate", attempts |-> GENERATE_ATTEMPTS, key |-> "gen_python_spec"],
      [name |-> "search", attempts |-> SEARCH_ATTEMPTS, key |-> "research_query"] }

\* self._client.chat.completions.create for a collaborator: it raises, or
\* returns a response whose content may be the empty string
CollaboratorResponses ==
    {[kind |-> "fails", content |-> ""]}
        \cup {[kind |-> "text", content |-> c] : c \in {"", "text"}}

\* if cached: None and the empty string are false
Truthy(v) == v # Absent /\ v # ""

\* the retry wrapper of generate / search is called
collaborator_call(method) ==
    /\ dpc \in {"idle", "returned", "raised"}
    /\ callee' = method
    /\ dpc' = "outer" /\ outer_attempt' = 0 /\ inner_attempt' = 0
    /\ dlog' = <<>> /\ dresult' = Absent
    /\ UNCHANGED <<api_key, dresp, now, cacheVars>>

\* one round of the wrapper of generate / search, up to the try: cached =
\* cache.get(cache_key), and a true value is returned
cache_lookup ==
    /\ dpc = "outer" /\ callee \in Methods
    /\ CacheManager_get(callee.key)
    /\ IF Truthy(clast'.result)
       THEN dpc' = "returned" /\ dresult' = clast'.result
       ELSE dpc' = "inner" /\ UNCHANGED dresult
    /\ inner_attempt' = 0
    /\ UNCHANGED <<api_key, outer_attempt, dlog, dresp, callee>>

\* one round of the wrapper of create_completion inside generate / search: the
\* oracle answers and the content is cached and returned; or it fails and the
\* wrapper sleeps and goes on; or it fails for the last time and the APIError
\* is raised again as CodeGenerationError / ResearchError into the wrapper of
\* the method, which sleeps and goes on or re-raises
collaborator_completion(resp) ==
    /\ dpc = "inner" /\ callee \in Methods
    /\ IF resp.kind = "text"
       THEN /\ dlog' = Append(dlog, OracleCall("text"))
            /\ CacheManager_set(callee.key, resp.content, NoTtl)
            /\ dresult' = resp.content
            /\ dpc' = "returned"
            /\ UNCHANGED <<outer_attempt, inner_attempt>>
       ELSE /\ UNCHANGED <<now, cacheVars, dresult>>
            /\ IF ~CompletionLastAttempt
               THEN /\ dlog' = dlog \o <<OracleCall("fails"),
                                         Sleep(RETRY_DELAY * Pow2(inner_attempt))>>
                    /\ inner_attempt' = inner_attempt + 1
                    /\ UNCHANGED <<dpc, outer_attempt>>
               ELSE IF outer_attempt = callee.attempts - 1
               THEN /\ dlog' = Append(dlog, OracleCall("fails"))
                    /\ dpc' = "raised"
                    /\ UNCHANGED <<outer_attempt, inner_attempt>>
               ELSE /\ dlog' = dlog \o <<OracleCall("fails"),
                                         Sleep(RETRY_DELAY * Pow2(outer_attempt))>>
                    /\ outer_attempt' = outer_attempt + 1
                    /\ dpc' = "outer"
                    /\ UNCHANGED inner_attempt
    /\ UNCHANGED <<api_key, dresp, callee>>

\* =============================================================== threads

\* the main thread and the thread Scheduler.start_async starts
Threads == {"main", "scheduler"}

\* GoalManager.add has no lock: a thread is idle, has appended its goal, has
\* opened (and so truncated) the file, or has serialized self.goals into its
\* file buffer and not closed the file yet

\* Scheduler.start_async
start_async ==
    /\ ~sched_running
    /\ sched_running' = TRUE
    /\ UNCHANGED <<tpc, tsnap, goalVars>>

\* Scheduler.stop: self.running = False; self.thread.join()
stop ==
    /\ sched_running /\ tpc["scheduler"] = "idle"
    /\ sched_running' = FALSE
    /\ UNCHANGED <<tpc, tsnap, goalVars>>

\* a thread may run: the main thread always, the scheduler's while running
MayRun(t) == t = "main" \/ sched_running

\* GoalManager.add up to self.stats["created"] += 1
thread_add(t, goal) ==
    /\ MayRun(t) /\ tpc[t] = "idle" /\ Len(goals) < MaxGoals
    /\ goals' = Append(goals, NewGoal(goal_id_of(goals, now), goal, GOAL_PRIORITY_MEDIUM, now))
    /\ gstats' = [gstats EXCEPT !.created = @ + 1]
    /\ tpc' = [tpc EXCEPT ![t] = "appended"]
    /\ UNCHANGED <<sched_running, tsnap, goalsFile, gcalled, gmatched, ghist>>

\* _save_goals: open(self.db_path, 'w') truncates the file
thread_open(t) ==
    /\ tpc[t] = "appended"
    /\ goalsFile' = Corrupt
    /\ tpc' = [tpc EXCEPT ![t] = "opened"]
    /\ UNCHANGED <<sched_running, tsnap, goals, gstats, gcalled, gmatched, ghist>>

\* _save_goals: json.dump(self.goals, f) fills the thread's file buffer
thread_dump(t) ==
    /\ tpc[t] = "opened"
    /\ tsnap' = [tsnap EXCEPT ![t] = goals]
    /\ tpc' = [tpc EXCEPT ![t] = "dumped"]
    /\ UNCHANGED <<sched_running, goalVars>>

\* _save_goals: leaving the with block flushes the buffer from offset 0; over
\* a longer document another thread has written since, the tail of that
\* document stays behind it
thread_close(t) ==
    /\ tpc[t] = "dumped"
    /\ goalsFile' = IF goalsFile.valid /\ Len(goalsFile.data) > Len(tsnap[t])
                    THEN Corrupt ELSE Doc(tsnap[t])
    /\ tpc' = [tpc EXCEPT ![t] = "idle"]
    /\ tsnap' = [tsnap EXCEPT ![t] = <<>>]
    /\ UNCHANGED <<sched_running, goals, gstats, gcalled, gmatched, ghist>>

\* no thread started, nobody in add
ThreadsIdle ==
    /\ sched_running = FALSE
    /\ tpc = [t \in Threads |-> "idle"]
    /\ tsnap = [t \in Threads |-> <<>>]

\* ======================================================== specifications

vars == <<now, wfails, goalVars, memVars, busVars, runVars, auxVars>>

AuxIdle == CacheIdle /\ RetryIdle /\ PermIdle /\ DecideIdle /\ ThreadsIdle


Idle ==
    /\ subscribers = <<>> /\ published = <<>> /\ delivered = <<>>
    /\ pc = "idle" /\ iterations = 0 /\ loop_i = 0 /\ iteration_count = 0
    /\ decision = NoDecision /\ pos = 0
    /\ collab = [generation_count |-> 0, refactor_count |-> 0, execution_count |-> 0,
                 research_count |-> 0, reflection_count |-> 0,
                 blocked_count |-> 0, allowed_count |-> 0]
    /\ reportFile = Doc(<<>>) /\ trace = <<>> /\ budget = 0

\* the stores, the bus and the loop as constructed and never called
CoreIdle ==
    /\ now = 0 /\ wfails = 0
    /\ goalsFile = Doc(<<>>) /\ goals = <<>>
    /\ gstats = [created |-> 0, completed |-> 0, failed |-> 0]
    /\ gcalled = {} /\ gmatched = NoneMatched /\ ghist = NoHist
    /\ memFile = Doc(<<>>) /\ dbMemory = <<>> /\ memory = <<>>
    /\ mstats = [added |-> 0, retrieved |-> 0]
    /\ mlast = [op |-> "none"] /\ mret = <<>> /\ mfailed = FALSE
    /\ Idle
CoreUnchanged == UNCHANGED <<wfails, goalVars, memVars, busVars, runVars>>

\* the Goal Store alone, driven by arbitrary calls
InitGoals ==
    /\ now = 0 /\ wfails = 0
    /\ GoalManager_init
    /\ memFile = Doc(<<>>) /\ dbMemory = <<>> /\ memory = <<>>
    /\ mstats = [added |-> 0, retrieved |-> 0]
    /\ mlast = [op |-> "none"] /\ mret = <<>> /\ mfailed = FALSE
    /\ Idle /\ AuxIdle
NextGoals ==
    \/ \E goal \in GoalTexts, outcome \in WriteOutcomes :
          /\ Len(goals) < MaxGoals
          /\ GoalManager_add(goal, GOAL_PRIORITY_MEDIUM, outcome)
          /\ UNCHANGED <<memVars, busVars, runVars, auxVars>>
    \/ \E goal_id \in GoalIdInputs, outcome \in WriteOutcomes :
          GoalManager_complete(goal_id, outcome) /\ UNCHANGED <<memVars, busVars, runVars, auxVars>>
    \/ \E goal_id \in GoalIdInputs, outcome \in WriteOutcomes :
          GoalManager_fail(goal_id, outcome) /\ UNCHANGED <<memVars, busVars, runVars, auxVars>>
    \/ \E goal_id \in GoalIdInputs, outcome \in WriteOutcomes :
          GoalManager_block(goal_id, outcome) /\ UNCHANGED <<memVars, busVars, runVars, auxVars>>
SpecGoals == InitGoals /\ [][NextGoals]_vars

\* the Memory Log alone, driven by arbitrary calls
InitMemory ==
    /\ now = 0 /\ wfails = 0
    /\ MemoryManager_init
    /\ goalsFile = Doc(<<>>) /\ goals = <<>>
    /\ gstats = [created |-> 0, completed |-> 0, failed |-> 0]
    /\ gcalled = {} /\ gmatched = NoneMatched /\ ghist = NoHist
    /\ Idle /\ AuxIdle
NextMemory ==
    \/ \E in \in MemAddInputs, db_ok \in BOOLEAN, outcome \in WriteOutcomes :
          /\ mstats.added < MaxAdded
          /\ MemoryManager_add(in[1], in[2], in[3], db_ok, outcome)
          /\ UNCHANGED <<goalVars, busVars, runVars, auxVars>>
    \/ \E count \in 0..MaxCountArg :
          MemoryManager_get_recent(count) /\ UNCHANGED <<goalVars, busVars, runVars, auxVars>>
    \/ \E event_type \in MemTypes :
          MemoryManager_get_by_type(event_type) /\ UNCHANGED <<goalVars, busVars, runVars, auxVars>>
    \/ \E query \in Queries :
          MemoryManager_search(query) /\ UNCHANGED <<goalVars, busVars, runVars, auxVars>>
    \/ \E timestamp \in 0..MaxTime :
          MemoryManager_get_since(timestamp) /\ UNCHANGED <<goalVars, busVars, runVars, auxVars>>
    \/ MemoryManager_get_stats /\ UNCHANGED <<goalVars, busVars, runVars, auxVars>>
    \/ \E outcome \in WriteOutcomes :
          MemoryManager_clear(outcome) /\ UNCHANGED <<goalVars, busVars, runVars, auxVars>>
SpecMemory == InitMemory /\ [][NextMemory]_vars

\* the two stores of one process, driven by arbitrary calls; their state is
\* disjoint, so a behaviour calls one store and leaves the other as loaded
GoalStoreUnused ==
    /\ goals = <<>> /\ gcalled = {} /\ gmatched = NoneMatched /\ ghist = NoHist
    /\ gstats = [created |-> 0, completed |-> 0, failed |-> 0]
MemoryLogUnused ==
    /\ memory = <<>> /\ dbMemory = <<>> /\ memFile = Doc(<<>>)
    /\ mstats = [added |-> 0, retrieved |-> 0] /\ mlast = [op |-> "none"]
GoalStoreCall(call) ==
    MemoryLogUnused /\ call /\ UNCHANGED <<memVars, busVars, runVars, auxVars>>
MemoryLogCall(call) ==
    GoalStoreUnused /\ call /\ UNCHANGED <<goalVars, busVars, runVars, auxVars>>
InitStores ==
    /\ now = 0 /\ wfails = 0
    /\ GoalManager_init
    /\ MemoryManager_init
    /\ GoalStoreUnused \/ MemoryLogUnused
    /\ Idle /\ AuxIdle
NextStores ==
    \/ \E goal \in GoalTexts, outcome \in WriteOutcomes :
          GoalStoreCall(Len(goals) < MaxGoals
                        /\ GoalManager_add(goal, GOAL_PRIORITY_MEDIUM, outcome))
    \/ \E goal_id \in GoalIdInputs, outcome \in WriteOutcomes :
          GoalStoreCall(GoalManager_complete(goal_id, outcome))
    \/ \E goal_id \in GoalIdInputs, outcome \in WriteOutcomes :
          GoalStoreCall(GoalManager_fail(goal_id, outcome))
    \/ \E goal_id \in GoalIdInputs, outcome \in WriteOutcomes :
          GoalStoreCall(GoalManager_block(goal_id, outcome))
    \/ \E in \in MemAddInputs, db_ok \in BOOLEAN, outcome \in WriteOutcomes :
          MemoryLogCall(mstats.added < MaxAdded
                        /\ MemoryManager_add(in[1], in[2], in[3], db_ok, outcome))
    \/ \E count \in 0..MaxCountArg : MemoryLogCall(MemoryManager_get_recent(count))
    \/ \E event_type \in MemTypes : MemoryLogCall(MemoryManager_get_by_type(event_type))
    \/ \E query \in Queries : MemoryLogCall(MemoryManager_search(query))
    \/ \E timestamp \in 0..MaxTime : MemoryLogCall(MemoryManager_get_since(timestamp))
    \/ MemoryLogCall(MemoryManager_get_stats)
    \/ \E outcome \in WriteOutcomes : MemoryLogCall(MemoryManager_clear(outcome))
SpecStores == InitStores /\ [][NextStores]_vars

\* one Jarvis object and the runs made on it
InitRun == Jarvis_init /\ AuxIdle
RunStep(step) == step /\ UNCHANGED auxVars
NextRun ==
    \/ \E n \in 0..MaxIterations :
          RunStep(run(n))
    \/ \E d \in DecisionInputs :
          RunStep(iterate(d))
    \/ \E db_ok \in BOOLEAN, outcome \in WriteOutcomes :
          RunStep(record_decision(db_ok, outcome))
    \/ RunStep(dispatch_none)
    \/ RunStep(dispatch_raises)
    \/ RunStep(dispatch_done)
    \/ \E generated, safe, db_ok \in BOOLEAN, outcome \in WriteOutcomes :
          RunStep(_handle_code_generation(generated, safe, db_ok, outcome))
    \/ \E refactored, db_ok \in BOOLEAN, outcome \in WriteOutcomes :
          RunStep(_handle_code_refactor(refactored, db_ok, outcome))
    \/ \E found, db_ok \in BOOLEAN, outcome \in WriteOutcomes :
          RunStep(_handle_research(found, db_ok, outcome))
    \/ \E attempts \in 1..2, analyzed \in BOOLEAN :
          RunStep(analyze(attempts, analyzed))
    \/ \E db_ok \in BOOLEAN, outcome \in WriteOutcomes :
          RunStep(_handle_reflection(db_ok, outcome))
    \/ \E outcome \in WriteOutcomes :
          RunStep(_handle_goal_update(outcome))
    \/ \E outcome \in WriteOutcomes :
          RunStep(update_goals(outcome))
    \/ RunStep(update_goals_raises)
    \/ RunStep(iteration_done)
    \/ \E db_ok \in BOOLEAN, outcome \in WriteOutcomes :
          RunStep(iteration_failed(db_ok, outcome))
    \/ \E outcome \in WriteOutcomes :
          RunStep(generate_report(outcome))
SpecRun == InitRun /\ [][NextRun]_vars

\* one CacheManager, driven by arbitrary calls
InitCache == CoreIdle /\ CacheManager_init /\ RetryIdle /\ PermIdle /\ DecideIdle /\ ThreadsIdle
CacheCall(call) == call /\ CoreUnchanged /\ UNCHANGED <<retryVars, permVars, decVars, thrVars>>
NextCache ==
    \/ \E key \in CacheKeys : CacheCall(CacheManager_get(key))
    \/ \E key \in CacheKeys, value \in CacheValues, ttl \in TtlInputs :
          CacheCall(CacheManager_set(key, value, ttl))
    \/ \E key \in CacheKeys : CacheCall(CacheManager_delete(key))
    \/ CacheCall(CacheManager_clear)
SpecCache == InitCache /\ [][NextCache]_vars

\* one wrapped function, called again and again
InitRetry == CoreIdle /\ retry_init /\ CacheIdle /\ PermIdle /\ DecideIdle /\ ThreadsIdle
RetryStep(step) == step /\ CoreUnchanged /\ UNCHANGED <<now, cacheVars, permVars, decVars, thrVars>>
NextRetry ==
    \/ RetryStep(wrapper_enter)
    \/ \E outcome \in Outcomes : RetryStep(wrapper_attempt(outcome))
    \/ RetryStep(wrapper_exhausted)
SpecRetry == InitRetry /\ [][NextRetry]_vars

\* one PermissionManager, asked about arbitrary texts
InitPermissions == CoreIdle /\ PermissionManager_init /\ CacheIdle /\ RetryIdle /\ DecideIdle /\ ThreadsIdle
PermissionCall(call) == call /\ CoreUnchanged /\ UNCHANGED <<now, cacheVars, retryVars, decVars, thrVars>>
NextPermissions ==
    \E code \in Codes : PermissionCall(check_code_safety(code))
SpecPermissions == InitPermissions /\ [][NextPermissions]_vars

\* one EventBus, driven by arbitrary calls
BusTypes == {"error_occurred", "iteration_started"}
BusCallbacks == {Callback("cb_bad", TRUE), Callback("cb_ok", FALSE), Callback("cb_other", FALSE)}
InitBus == CoreIdle /\ AuxIdle
BusCall(call) == call /\ UNCHANGED <<now, wfails, goalVars, memVars, runVars, auxVars>>
NextBus ==
    \/ \E t \in BusTypes, cb \in BusCallbacks : BusCall(EventBus_subscribe(t, cb))
    \/ \E t \in BusTypes, cb \in BusCallbacks : BusCall(EventBus_unsubscribe(t, cb))
    \/ \E t \in BusTypes : BusCall(Len(published) < MaxPublished /\ publish(t))
    \/ BusCall(EventBus_clear)
SpecBus == InitBus /\ [][NextBus]_vars

\* the main loop and the scheduler's thread, both adding goals
InitThreads == CoreIdle /\ AuxIdle
ThreadStep(step) ==
    step /\ UNCHANGED <<now, wfails, memVars, busVars, runVars, cacheVars, retryVars, permVars, decVars>>
NextThreads ==
    \/ ThreadStep(start_async)
    \/ ThreadStep(stop)
    \/ \E t \in Threads, goal \in GoalTexts : ThreadStep(thread_add(t, goal))
    \/ \E t \in Threads : ThreadStep(thread_open(t))
    \/ \E t \in Threads : ThreadStep(thread_dump(t))
    \/ \E t \in Threads : ThreadStep(thread_close(t))
SpecThreads == InitThreads /\ [][NextThreads]_vars

\* decide_action, called again and again against an arbitrary oracle
InitDecide == CoreIdle /\ decide_init /\ CacheIdle /\ RetryIdle /\ PermIdle /\ ThreadsIdle
DecideStep(step) == step /\ CoreUnchanged /\ UNCHANGED <<now, cacheVars, retryVars, permVars, thrVars>>
NextDecide ==
    \/ DecideStep(decide_enter)
    \/ DecideStep(decide_attempt)
    \/ \E resp \in OracleResponses : DecideStep(completion_attempt(resp))
SpecDecide == InitDecide /\ [][NextDecide]_vars

\* the collaborators' methods called again and again over the module's cache
InitCollaborators ==
    CoreIdle /\ CacheManager_init /\ RetryIdle /\ PermIdle /\ DecideIdle /\ ThreadsIdle
CollaboratorStep(step) == step /\ CoreUnchanged /\ UNCHANGED <<retryVars, permVars, thrVars>>
NextCollaborators ==
    \/ \E method \in Methods : CollaboratorStep(collaborator_call(method))
    \/ CollaboratorStep(cache_lookup)
    \/ \E resp \in CollaboratorResponses : CollaboratorStep(collaborator_completion(resp))
SpecCollaborators == InitCollaborators /\ [][NextCollaborators]_vars

\* ================================================================ claims

\* ---- C1 ----------------------------------------------------------------
\* the trace positions of iterations that raised and whose loop-level handler
\* has acted since
HandledRaises == {k \in 1..(Len(trace) - 1) : trace[k][1] = "raised"}
\* the position of the run entry the trace position k belongs to
RunOf(k) == CHOOSE r \in 1..k :
               /\ trace[r][1] = "run"
               /\ \A q \in (r + 1)..k : trace[q][1] # "run"
CountOf(seq, x) == Cardinality({k \in 1..Len(seq) : seq[k] = x})
ErrorEvents(events) == {k \in 1..Len(events) : events[k].type = "error"}

\* C1: an iteration i that raises outside the per-action isolation never
\* ends the run: the loop records exactly one "error" memory event and
\* publishes one error event for it and goes on behind iteration i, and the
\* report of a run with such an iteration has total_iterations = N.
C1_BadIterationNeverEndsRun ==
    /\ \A k \in HandledRaises : trace[k + 1] = <<"error_recorded", trace[k][2]>>
    /\ Cardinality(ErrorEvents(memory)) = Cardinality(HandledRaises)
    /\ CountOf(published, "error_occurred") = Cardinality(HandledRaises)
    /\ \A k \in 1..Len(trace) :
          (trace[k][1] = "report" /\ \E q \in RunOf(k)..k : trace[q][1] = "raised")
             => trace[k][2] = trace[RunOf(k)][2]

\* ---- C2 ----------------------------------------------------------------
\* C2: once construction has succeeded, no exception propagates out of run,
\* whatever fails: run is never left by a raise.
C2_RunNeverRaises ==
    pc # "raised"

\* ---- C3 ----------------------------------------------------------------
\* the entries of the run under way or last made, without its run entry
LastRun == SubSeq(trace, RunOf(Len(trace)) + 1, Len(trace))
Entered(seq) == SelectSeq(seq, LAMBDA e : e[1] = "iteration")

\* C3: each run(N) goes Idle -> Iterating(1) -> ... -> Iterating(N) ->
\* Reporting -> Idle. The iterations entered so far are 1, 2, ... in order,
\* each entered after the one before it is over; and a run that is over has
\* entered all of 1..N and has then reported, exactly once, as its last step.
C3_RunFollowsStateMachine ==
    trace # <<>> =>
        LET n == trace[RunOf(Len(trace))][2]
            entered == Entered(LastRun)
        IN  /\ entered = [k \in 1..Len(entered) |-> <<"iteration", k>>]
            /\ Len(entered) <= n
            /\ \A k \in 2..Len(LastRun) :
                  LastRun[k][1] = "iteration" =>
                     LastRun[k - 1] \in {<<"finished", LastRun[k][2] - 1>>,
                                         <<"error_recorded", LastRun[k][2] - 1>>}
            /\ CountOf([k \in 1..Len(LastRun) |-> LastRun[k][1]], "report") <= 1
            /\ pc \in {"idle", "raised"} =>
                  /\ Len(entered) = n
                  /\ LastRun[Len(LastRun)][1] = "report"

\* ---- C4 ----------------------------------------------------------------
\* C4: every status change made by complete, fail or block starts from
\* active: it is active->completed, active->failed with attempts + 1, or
\* active->blocked, so a goal that has left active never changes status again.
C4_StatusChangesOnlyFromActive ==
    [][\A i \in 1..Len(goals) :
          goals'[i].status # goals[i].status =>
             /\ goals[i].status = STATUS_ACTIVE
             /\ \/ goals'[i].status = STATUS_COMPLETED
                \/ goals'[i].status = STATUS_BLOCKED
                \/ /\ goals'[i].status = STATUS_FAILED
                   /\ goals'[i].attempts = goals[i].attempts + 1]_vars

\* ---- C5 ----------------------------------------------------------------
NotCalled(gs, called) == SelectSeq(gs, LAMBDA g : g.id \notin called)

\* C5: get_active() is exactly the texts, in insertion order, of the goals
\* that complete, fail or block have not been called on: it holds no goal
\* one of them was called on, and every other goal is still active.
C5_GetActiveExcludesCalled ==
    get_active(goals) =
        [i \in 1..Len(NotCalled(goals, gcalled)) |-> NotCalled(goals, gcalled)[i].text]

\* two goals, block was called on the first one only
C5_Witness ==
    /\ Len(goals) = 2
    /\ goals[1].status = STATUS_BLOCKED
    /\ goals[1].id \in gcalled
    /\ goals[2].id \notin gcalled
    /\ get_active(goals) = <<goals[2].text>>

\* ---- C6 ----------------------------------------------------------------
UnmatchedCall ==
    \E goal_id \in GoalIdInputs, outcome \in WriteOutcomes :
       /\ FirstMatch(goals, goal_id) = 0
       /\ \/ GoalManager_complete(goal_id, outcome)
          \/ GoalManager_fail(goal_id, outcome)
          \/ GoalManager_block(goal_id, outcome)

\* C6: complete, fail and block with an id that matches no goal leave the
\* goal collection, the counters and the durable file as they were.
C6_UnmatchedIdIsNoOp ==
    [][UnmatchedCall => UNCHANGED <<goals, gstats, goalsFile>>]_vars

\* an unmatched call has returned on a store whose file lags behind self.goals
C6_Witness ==
    /\ ghist.op = "no_match"
    /\ Len(goals) = 2
    /\ goalsFile # Doc(goals)

\* ---- C7 ----------------------------------------------------------------
\* C7: after add followed by complete of the returned id, get_stats() shows
\* created, completed and total one higher than before the add and failed
\* and active as before; from an empty store that is {1, 1, 0, 0, 1}.
C7_AddThenCompleteStats ==
    ghist.op = "add_complete" =>
        /\ get_stats(goals, gstats) =
              [created   |-> ghist.pre.created + 1,
               completed |-> ghist.pre.completed + 1,
               failed    |-> ghist.pre.failed,
               active    |-> ghist.pre.active,
               total     |-> ghist.pre.total + 1]
        /\ (ghist.pre.total = 0 /\ ghist.pre.created = 0 /\ ghist.pre.completed = 0
                /\ ghist.pre.failed = 0) =>
              get_stats(goals, gstats) =
                 [created |-> 1, completed |-> 1, failed |-> 0, active |-> 0, total |-> 1]

\* "Refactor module X" was added to an empty store and then completed
C7_Witness ==
    /\ ghist.op = "add_complete"
    /\ Len(goals) = 1
    /\ goals[1].text = "Refactor module X"
    /\ goals[1].priority = GOAL_PRIORITY_MEDIUM
    /\ get_stats(goals, gstats) =
          [created |-> 1, completed |-> 1, failed |-> 0, active |-> 0, total |-> 1]

\* ---- C8 ----------------------------------------------------------------
LastN(seq, k) == SubSeq(seq, Len(seq) - k + 1, Len(seq))

\* C8: get_recent(n), n >= 0, returns the contents of the last min(n, total)
\* events, oldest first.
C8_GetRecentIsTail ==
    mlast.op = "get_recent" =>
        mret = LastN(contents(memory), Min(mlast.count, Len(memory)))

\* ---- C9 ----------------------------------------------------------------
\* C9: the log is append-only. A step that counts an add appends exactly one
\* event behind the unchanged earlier events; any other step leaves the
\* sequence as it is, unless it is clear(), which empties it.
C9_AppendOnly ==
    [][/\ mstats'.added # mstats.added =>
             /\ Len(memory') = Len(memory) + 1
             /\ SubSeq(memory', 1, Len(memory)) = memory
       /\ mstats'.added = mstats.added =>
             \/ memory' = memory
             \/ mlast'.op = "clear" /\ memory' = <<>>]_vars

\* an event with the content of the one before it was appended to a loaded log
C9_Witness ==
    /\ mlast.op = "add"
    /\ Len(memory) = 3
    /\ memory[1] = OldEvent
    /\ memory[3].content = memory[2].content

\* ---- C10 ---------------------------------------------------------------
TypeAndContent(events) == [i \in 1..Len(events) |-> <<events[i].type, events[i].content>>]
RowTypeAndContent(rows) == [i \in 1..Len(rows) |-> <<rows[i].event_type, rows[i].content>>]

\* C10: while no durable write has failed, the indexed store holds exactly
\* the events of the ordered sequence: same type, same content, same order.
C10_MirrorMatchesSequence ==
    ~mfailed => RowTypeAndContent(dbMemory) = TypeAndContent(memory)

\* ---- C11 ---------------------------------------------------------------
\* C11: a persistence failure during add is swallowed. Whichever write
\* fails, add returns without raising, the new event is the last one of the
\* in-memory sequence, and a read made next returns it.
C11_AddSwallowsPersistenceFailure ==
    mlast.op = "add" =>
        /\ ~mlast.raised
        /\ memory # <<>>
        /\ get_recent(memory, 1) = <<memory[Len(memory)].content>>

\* ---- C12 ---------------------------------------------------------------
\* C12: persistence is a synchronous write-through. Whenever a Goal Store
\* add, or complete, fail or block with a matching id, or a Memory Log add or
\* clear returns and its file write did not fail, the durable document
\* equals the whole in-memory collection as the call leaves it.
C12_WriteThrough ==
    [][wfails' = wfails =>
          /\ (goalVars' # goalVars /\ ghist'.op # "no_match") => goalsFile' = Doc(goals')
          /\ (memVars' # memVars /\ mlast'.op \in {"add", "clear"}) => memFile' = Doc(memory')]_vars

\* a call has rewritten the goals file in full after an earlier write failed
C12_Witness ==
    /\ wfails = 1
    /\ Len(goals) = 2
    /\ goals[1].status = STATUS_COMPLETED
    /\ goalsFile = Doc(goals)

\* ---- C13 ---------------------------------------------------------------
\* C13: after any sequence of set, get, delete and clear calls the cache
\* never holds more than max_size entries.
C13_SizeWithinMax == Len(cache) <= max_size

\* a full cache took one more key: the set evicted and the size stayed at max_size
C13_Witness ==
    /\ clast.op = "set" /\ clast.evicted # <<>>
    /\ clast.evicted[1].key # clast.key
    /\ max_size > 1 /\ Len(cache) = max_size

\* ---- C14 ---------------------------------------------------------------
EntriesOf(c) == {c[i] : i \in 1..Len(c)}
\* the entries a set of key leaves alone: all but the one it overwrites
Others(c, key) == {e \in EntriesOf(c) : e.key # key}

\* C14: a set made while the cache holds max_size entries removes exactly one
\* existing entry, one whose created_at no other entry undercuts, whatever the
\* hit counts; every other entry (the set key's own entry aside, which the
\* set overwrites) is kept with value, timestamps and hits unchanged. A set
\* below capacity evicts nothing.
C14_SetEvictsOldestOnly ==
    [][(clast'.op = "set" /\ cache_enabled) =>
          LET key == clast'.key IN
          IF Len(cache) >= max_size
          THEN \E victim \in EntriesOf(cache) :
                  /\ \A e \in EntriesOf(cache) : victim.created_at <= e.created_at
                  /\ Others(cache', key) = Others(cache, key) \ {victim}
                  /\ Keys(cache') = (Keys(cache) \ {victim.key}) \cup {key}
          ELSE /\ Others(cache', key) = Others(cache, key)
               /\ Keys(cache') = Keys(cache) \cup {key}]_vars

\* the set evicted the oldest entry although it was the most read one, and the
\* newer, never read entry is still there
C14_Witness ==
    /\ clast.op = "set" /\ clast.evicted # <<>>
    /\ clast.evicted[1].key # clast.key
    /\ clast.evicted[1].hits = MaxHits
    /\ \E e \in Others(cache, clast.key) :
          e.hits = 0

\* ---- C15 ---------------------------------------------------------------
EntryOf(c, key) == c[IndexOf(c, key)]

\* C15: a get(key) issued when the clock is past the entry's expires_at returns
\* absent and deletes the entry, and a get of a key that is not in the table
\* returns absent too; expiry is lazy: an entry leaves the table only through
\* a get of its own key past its expires_at, a delete of its key, a clear or a
\* set made at capacity, so an expired entry nobody reads stays in the table.
C15_LazyExpiry ==
    [][/\ (clast'.op = "get" /\ clast'.key \in Keys(cache)
            /\ now' > EntryOf(cache, clast'.key).expires_at) =>
              /\ clast'.result = Absent
              /\ clast'.key \notin Keys(cache')
              /\ Others(cache', clast'.key) = Others(cache, clast'.key)
       /\ (clast'.op = "get" /\ clast'.key \notin Keys(cache)) =>
              clast'.result = Absent /\ cache' = cache
       /\ \A e \in EntriesOf(cache) :
              e.key \notin Keys(cache') =>
                 \/ clast'.op = "get" /\ clast'.key = e.key /\ now' > e.expires_at
                 \/ clast'.op = "delete" /\ clast'.key = e.key
                 \/ clast'.op = "clear"
                 \/ clast'.op = "set" /\ Len(cache) >= max_size]_vars

\* a get has just removed an expired entry while another entry, expired too
\* and never read, is still in the table
C15_Witness ==
    /\ clast.op = "get" /\ clast.path = "expired"
    /\ \E e \in EntriesOf(cache) : now > e.expires_at /\ e.hits = 0

\* ---- C16 ---------------------------------------------------------------
\* C16: with caching enabled, a set(k, v) leaves k's entry holding v and no
\* other call changes the value an entry holds, and get(k) returns the value
\* k's entry holds exactly when k is in the table and the clock read is not
\* past its expires_at; a hit adds 1 to that entry's hits and changes nothing
\* else; after delete(k) the key is gone, the other entries are as they were,
\* and delete of a key that is not in the table changes nothing.
C16_GetSetDelete ==
    [][LET key == clast'.key
           live == key \in Keys(cache) /\ now' <= EntryOf(cache, key).expires_at IN
       /\ (clast'.op = "set" /\ cache_enabled) =>
              /\ key \in Keys(cache')
              /\ EntryOf(cache', key).value = clast'.value
              /\ EntryOf(cache', key).hits = 0
       /\ clast'.op # "set" =>
              \A e \in EntriesOf(cache) :
                 e.key \in Keys(cache') => EntryOf(cache', e.key).value = e.value
       /\ (clast'.op = "get" /\ cache_enabled) =>
              /\ clast'.result # Absent <=> live
              /\ live =>
                    /\ clast'.result = EntryOf(cache, key).value
                    /\ cache' = [cache EXCEPT ![IndexOf(cache, key)].hits = @ + 1]
       /\ clast'.op = "delete" =>
              /\ key \notin Keys(cache')
              /\ Others(cache', key) = Others(cache, key)
              /\ key \notin Keys(cache) => cache' = cache]_vars

\* a hit at the deadline itself: the clock equals expires_at, the value set is
\* returned and the entry's hits went from 0 to 1
C16_Witness ==
    /\ clast.op = "get" /\ clast.path = "hit"
    /\ clast.key \in Keys(cache)
    /\ EntryOf(cache, clast.key).expires_at = now
    /\ EntryOf(cache, clast.key).hits = 1
    /\ clast.result = EntryOf(cache, clast.key).value

\* ---- C17 ---------------------------------------------------------------
\* C17: when caching is disabled by configuration, every get returns absent
\* and every set leaves the table as it was, so nothing is ever stored.
C17_DisabledIsNoOp ==
    [][~cache_enabled =>
          /\ clast'.op = "get" => clast'.result = Absent /\ cache' = cache
          /\ clast'.op = "set" => cache' = cache /\ cache' = <<>>]_vars

\* a set and then a get of the same key under the disabled configuration
C17_Witness ==
    /\ ~cache_enabled /\ cache = <<>>
    /\ clast.op = "get" /\ clast.path = "disabled" /\ clast.result = Absent

\* ---- C18 ---------------------------------------------------------------
\* the invocations of func and the sleeps of the wrapper call under way
Invocations == SelectSeq(rlog, LAMBDA ev : ev.ev = "call")
Sleeps == SelectSeq(rlog, LAMBDA ev : ev.ev = "sleep")
Finished == rpc \in {"returned", "raised"}
FailedInvocations == Cardinality({k \in 1..Len(Invocations) : Invocations[k].outcome.raised})
\* func was invoked and every invocation but possibly the last one raised
FailedThenSucceeded ==
    /\ Invocations # <<>>
    /\ ~Invocations[Len(Invocations)].outcome.raised

\* C18: for max_attempts >= 1, when the wrapped operation fails f times
\* (f < max_attempts) and then succeeds, the wrapper returns the success
\* value after exactly f + 1 invocations and f sleeps, the k-th sleep lasting
\* delay * 2^(k-1), each twice the one before, each sleep coming between two
\* invocations and none after the successful one.
C18_RetryUntilSuccess ==
    (Finished /\ max_attempts >= 1 /\ FailedThenSucceeded) =>
        LET f == FailedInvocations IN
        /\ f < max_attempts
        /\ rpc = "returned"
        /\ rresult = Invocations[Len(Invocations)].outcome.value
        /\ Len(Invocations) = f + 1
        /\ \A k \in 1..f : Invocations[k].outcome.raised
        /\ Len(Sleeps) = f
        /\ \A k \in 1..f : Sleeps[k].seconds = delay * Pow2(k - 1)
        /\ \A k \in 2..f : Sleeps[k].seconds = 2 * Sleeps[k - 1].seconds
        /\ Len(rlog) = 2 * f + 1
        /\ \A k \in 1..Len(rlog) : rlog[k].ev = (IF k % 2 = 1 THEN "call" ELSE "sleep")

\* max_attempts = 3 and two failures before the success: two sleeps, the
\* second twice the first
C18_Witness ==
    /\ rpc = "returned" /\ max_attempts = 3 /\ delay = MaxDelay
    /\ FailedInvocations = 2 /\ Len(Sleeps) = 2
    /\ Sleeps[2].seconds = 2 * Sleeps[1].seconds
    /\ rresult \in Returns

\* ---- C19 ---------------------------------------------------------------
AlwaysFailed ==
    /\ Invocations # <<>>
    /\ \A k \in 1..Len(Invocations) : Invocations[k].outcome.raised

\* C19: for max_attempts >= 1, when the wrapped operation fails every time,
\* the wrapper invokes it exactly max_attempts times, sleeps exactly
\* max_attempts - 1 times, never after the final attempt, and raises the
\* failure of the final attempt.
C19_RetryExhausted ==
    (Finished /\ max_attempts >= 1 /\ AlwaysFailed) =>
        /\ rpc = "raised"
        /\ Len(Invocations) = max_attempts
        /\ Len(Sleeps) = max_attempts - 1
        /\ rlog[Len(rlog)].ev = "call"
        /\ rresult = Invocations[max_attempts].outcome.error

\* three attempts failed, the last with another exception than the first two,
\* and that one reached the caller
C19_Witness ==
    /\ rpc = "raised" /\ max_attempts = 3 /\ Len(Invocations) = 3
    /\ Invocations[1].outcome.error = "e1" /\ Invocations[2].outcome.error = "e1"
    /\ Invocations[3].outcome.error = "e2" /\ rresult = "e2"

\* ---- C20 ---------------------------------------------------------------
\* the smallest member of a nonempty set of pattern positions
Lowest(S) == CHOOSE i \in S : \A j \in S : i <= j

\* C20: with safety-mode on, a check of a text in which at least one
\* dangerous pattern is found returns the negation of the block-dangerous
\* flag, adds exactly 1 to blocked_count, leaves allowed_count unchanged and
\* appends exactly one warning, the one of the first pattern in list order
\* that is found.
C20_DangerousCodeChecked ==
    [][(safety_mode /\ plast'.op = "check" /\ Found[plast'.code] # {}) =>
          /\ plast'.result = ~block_dangerous
          /\ blocked_count' = blocked_count + 1
          /\ allowed_count' = allowed_count
          /\ warnings' = Append(warnings,
                 Warning(DANGEROUS_PATTERNS[Lowest(Found[plast'.code])]))]_vars

\* the end-to-end case: os.system('rm -rf /') under the shipped configuration
\* is refused, counted once and warned about once, for os\.system
C20_Witness ==
    /\ safety_mode /\ block_dangerous
    /\ plast.op = "check" /\ plast.code = "os.system('rm -rf /')"
    /\ plast.result = FALSE
    /\ blocked_count = 1 /\ allowed_count = 0
    /\ warnings = <<Warning(DANGEROUS_PATTERNS[5])>>

\* ---- C21 ---------------------------------------------------------------
\* C21: with safety-mode off, check_code_safety returns true for every text,
\* one in which a dangerous pattern is found included, and leaves
\* blocked_count, allowed_count and the warnings as they were.
C21_SafetyOffBypasses ==
    [][(~safety_mode /\ plast'.op = "check") =>
          /\ plast'.result = TRUE
          /\ blocked_count' = blocked_count
          /\ allowed_count' = allowed_count
          /\ warnings' = warnings]_vars

\* os.system('rm -rf /') with safety-mode off: allowed, nothing counted
C21_Witness ==
    /\ ~safety_mode
    /\ plast.op = "check" /\ plast.code = "os.system('rm -rf /')"
    /\ Found[plast.code] # {}
    /\ plast.result = TRUE
    /\ blocked_count = 0 /\ allowed_count = 0 /\ warnings = <<>>

\* ---- C22 ---------------------------------------------------------------
OracleCalls == SelectSeq(dlog, LAMBDA ev : ev.ev = "oracle")
DecideSleeps == SelectSeq(dlog, LAMBDA ev : ev.ev = "sleep")
DecideFinished == dpc \in {"returned", "raised"}
FailedOracleCalls == Cardinality({k \in 1..Len(OracleCalls) : OracleCalls[k].out # "text"})
IsErrorDecision(d) ==
    /\ DOMAIN d = DecisionFields
    /\ d["action_type"] = JString(<<"error">>)
    /\ d["confidence"] = JNumber(0)
    /\ d["actions"] = JArray(<<>>)
    /\ d["goals_update"] = JArray(<<>>)

\* C22: a decide call whose oracle returns text that is no JSON returns, and
\* does not raise, a Decision with action_type "error", confidence 0.0, empty
\* actions and goals_update and an analysis that tells of the parse error; the
\* parse failure ends the call: the answer is the last thing in the call's
\* history, no sleep and no invocation follows it, and an oracle that answers
\* at once is invoked exactly once with no sleep at all.
C22_ParseFailureIsTerminal ==
    (DecideFinished /\ dresp.kind = "text" /\ dresp.text.json = "malformed") =>
        /\ dpc = "returned"
        /\ IsErrorDecision(dresult)
        /\ dresult["analysis"] = JString(<<"Error parsing response">>)
        /\ dlog[Len(dlog)] = OracleCall("text")
        /\ Len(OracleCalls) = FailedOracleCalls + 1
        /\ Len(DecideSleeps) = FailedOracleCalls
        /\ FailedOracleCalls = 0 => Len(dlog) = 1

\* the oracle answered at once with text that is no JSON
C22_Witness ==
    /\ dpc = "returned" /\ dresp.kind = "text" /\ dresp.text.json = "malformed"
    /\ dlog = <<OracleCall("text")>>
    /\ dresult["action_type"] = JString(<<"error">>)

\* ---- C23 ---------------------------------------------------------------
\* C23: with the client configured, a decide call never raises; when every
\* oracle invocation fails it invokes the oracle exactly 3 times, sleeping 1
\* and then 2 seconds between the attempts, and returns a Decision with
\* action_type "error", confidence 0.0, empty actions and goals_update and
\* the failure's text as analysis.
C23_OracleFailureReturnsError ==
    api_key =>
        /\ dpc # "raised"
        /\ (DecideFinished /\ dresp.kind = "fails") =>
              /\ dpc = "returned"
              /\ Len(OracleCalls) = 3
              /\ FailedOracleCalls = 3
              /\ [k \in 1..Len(dlog) |-> dlog[k].ev] =
                    <<"oracle", "sleep", "oracle", "sleep", "oracle">>
              /\ [k \in 1..Len(DecideSleeps) |-> DecideSleeps[k].seconds] = <<1, 2>>
              /\ IsErrorDecision(dresult)
              /\ dresult["analysis"] = JString(<<"API request failed: ", dresp.error>>)

\* three failures, the last one another than the first, reported by its text
C23_Witness ==
    /\ api_key /\ dpc = "returned" /\ dresp.kind = "fails"
    /\ Len(OracleCalls) = 3
    /\ OracleCalls[1].out = "e1" /\ OracleCalls[3].out = "e2"
    /\ dresult["analysis"] = JString(<<"API request failed: ", "e2">>)

\* ---- C24 ---------------------------------------------------------------
\* C24: every Decision decide returns, whatever the oracle answered, contains
\* analysis, action_type, actions, goals_update and confidence.
C24_DecisionHasAllFields ==
    dpc = "returned" => DecisionFields \subseteq DOMAIN dresult

\* ---- C25 ---------------------------------------------------------------
Tags == {"code_generation", "code_refactor", "research", "reflection", "goal_update",
         "error", "unknown"}
ValidConfidence(v) == v.type = "number" /\ v.num \in 0..10

\* C25: in every Decision decide returns, confidence is a number in [0,1],
\* and 0.5 when the oracle's value is absent or invalid; action_type is one of
\* the five handler tags, "error" or "unknown"; actions and goals_update are
\* sequences of strings.
C25_DecisionIsNormalized ==
    (dpc = "returned" /\ dresp.kind = "text" /\ dresp.text.json = "object") =>
        LET given == dresp.text.fields IN
        /\ "confidence" \in DOMAIN dresult /\ ValidConfidence(dresult["confidence"])
        /\ ("confidence" \notin DOMAIN given \/ ~ValidConfidence(given["confidence"])) =>
              dresult["confidence"] = JNumber(DEFAULT_CONFIDENCE)
        /\ "action_type" \in DOMAIN dresult
        /\ dresult["action_type"].type = "string"
        /\ \E tag \in Tags : dresult["action_type"].str = <<tag>>
        /\ "actions" \in DOMAIN dresult /\ dresult["actions"].type = "array"
        /\ "goals_update" \in DOMAIN dresult /\ dresult["goals_update"].type = "array"

\* ---- C26 ---------------------------------------------------------------
\* the callbacks the last publish invoked, in the order of the calls
Invoked(before, after) == SubSeq(after, Len(before) + 1, Len(after))

\* C26: publish(e) invokes each callback subscribed to e's type once per
\* subscription, in subscription order, and no callback subscribed only to
\* another type; a callback that raises does not keep the ones after it from
\* being invoked; publish leaves the subscriptions as they were.
C26_PublishReachesAll ==
    [][published' # published =>
          LET t == published'[Len(published')]
              subs == SubscribersOf(subscribers, t)
              new == Invoked(delivered, delivered') IN
          /\ published' = Append(published, t)
          /\ SubSeq(delivered', 1, Len(delivered)) = delivered
          /\ Len(new) = Len(subs)
          /\ \A n \in 1..Len(subs) : new[n] = <<t, subs[n].name>>
          /\ \A n \in 1..Len(subs) :
                subs[n].raises => \A m \in (n + 1)..Len(subs) : new[m][2] = subs[m].name
          /\ subscribers' = subscribers]_vars

\* a raising callback and then a plain one were invoked in that order, while
\* a callback of the other type was not
C26_Witness ==
    /\ published = <<"error_occurred">>
    /\ delivered = <<<<"error_occurred", "cb_bad">>, <<"error_occurred", "cb_ok">>>>
    /\ "iteration_started" \in DOMAIN subscribers
    /\ subscribers["iteration_started"] = <<Callback("cb_other", FALSE)>>

\* ---- C27 ---------------------------------------------------------------
InAdd(t) == tpc[t] # "idle"

\* never are both threads inside add at once
MutualExclusion == ~(InAdd("main") /\ InAdd("scheduler"))
\* once both threads have left add, the durable file holds the collection
NoLostWrite == (~InAdd("main") /\ ~InAdd("scheduler")) => goalsFile = Doc(goals)

\* C27: while the scheduler's thread triggers loop work beside the main loop,
\* the Goal Store mutations of the two threads are serialized: never are both
\* threads inside add (the append with its whole-file rewrite) at once, and
\* once both have left add the durable file holds every goal of the
\* collection.
C27_MutationsSerialized == MutualExclusion /\ NoLostWrite

\* ---- C28 ---------------------------------------------------------------
\* C28: the content of every event in the Memory Log's ordered sequence is at
\* most the cap (1000) long, whatever content was passed to add.
C28_ContentWithinCap ==
    \A i \in 1..Len(memory) : StrLen(memory[i].content) <= ContentCap

\* ---- C29 ---------------------------------------------------------------
\* C29: set(key, value, ttl) stores an entry with that value, created_at the
\* current time, expires_at = created_at + ttl for every ttl >= 0 the caller
\* passes, the configured default taking its place only when ttl is omitted,
\* and hits = 0, whatever entry the key had before.
C29_SetStoresEntry ==
    [][(clast'.op = "set" /\ cache_enabled) =>
          LET e == EntryOf(cache', clast'.key)
              ttl == IF clast'.ttl = NoTtl THEN ttl_seconds ELSE clast'.ttl IN
          /\ clast'.key \in Keys(cache')
          /\ e.value = clast'.value
          /\ e.created_at = now'
          /\ e.expires_at = e.created_at + ttl
          /\ e.hits = 0]_vars

\* the ids of the goals of a collection
IdsOf(gs) == {gs[i].id : i \in 1..Len(gs)}

\* no two goals of the store have the same id
DistinctIds == \A i, j \in 1..Len(goals) : goals[i].id = goals[j].id => i = j

\* C30: every add appends exactly one goal at the end, with status active,
\* attempts 0 and no completion time, returns that goal's id, modifies no
\* existing goal and adds 1 to the created counter only; the id is the id of
\* no goal already in the store.  So the ids of the store are pairwise distinct
\* in every reachable state, and no step removes a goal or changes its id.
C30_AddAppendsFreshGoal ==
    /\ []DistinctIds
    /\ [][/\ Len(goals') >= Len(goals)
          /\ \A i \in 1..Len(goals) : goals'[i].id = goals[i].id
          /\ ghist'.op = "add" =>
                LET g == goals'[Len(goals')] IN
                /\ Len(goals') = Len(goals) + 1
                /\ SubSeq(goals', 1, Len(goals)) = goals
                /\ g.status = STATUS_ACTIVE /\ g.attempts = 0 /\ g.completed = NoTime
                /\ g.id = ghist'.id
                /\ g.id \notin IdsOf(goals)
                /\ gstats' = [gstats EXCEPT !.created = @ + 1]]_vars

\* two goals added at the same clock reading, the second by the last call
C30_Witness ==
    /\ ghist.op = "add" /\ Len(goals) = 2
    /\ goals[1].id[2] = goals[2].id[2]
    /\ goals[1].id # goals[2].id

\* ---- C31 ---------------------------------------------------------------
\* C31: with safety-mode on, every check_code_safety call adds exactly 1 to
\* exactly one of blocked_count and allowed_count; a text in which no
\* dangerous pattern is found returns true, adds 1 to allowed_count and leaves
\* blocked_count and the warnings as they were.  So blocked_count +
\* allowed_count is always the number of scanning calls made.
C31_EveryScanCounted ==
    /\ [](safety_mode => blocked_count + allowed_count = plast.scans)
    /\ [][(safety_mode /\ plast'.op = "check") =>
            /\ \/ blocked_count' = blocked_count + 1 /\ allowed_count' = allowed_count
               \/ allowed_count' = allowed_count + 1 /\ blocked_count' = blocked_count
            /\ Found[plast'.code] = {} =>
                  /\ plast'.result = TRUE
                  /\ allowed_count' = allowed_count + 1
                  /\ blocked_count' = blocked_count
                  /\ warnings' = warnings]_vars

\* evaluate(x), which holds the letters eval but not eval(, has been allowed
\* after a blocked text: both counters stand at 1 after two scans
C31_Witness ==
    /\ safety_mode
    /\ plast.op = "check" /\ plast.code = "evaluate(x)" /\ plast.result = TRUE
    /\ blocked_count = 1 /\ allowed_count = 1 /\ plast.scans = 2

\* ---- C32 ---------------------------------------------------------------
\* a handler that walks the actions of the decision is at work
InActionHandler ==
    /\ pc = "dispatch"
    /\ decision.action_type \in ActionHandlers
    /\ decision.actions # Null
LastEvent == memory[Len(memory)]

\* C32: failures are isolated per action. In the code_generation,
\* code_refactor and research handlers every turn of the loop, whether the
\* collaborator or the recording failed in it or not, moves on to the next
\* action; the handler returns normally once all actions have had their turn,
\* and the iteration goes on to add the goals of goals_update.
C32_FailuresIsolatedPerAction ==
    [][/\ InActionHandler =>
            /\ decision' = decision
            /\ pos < Len(decision.actions.items) => pc' = "dispatch" /\ pos' = pos + 1
            /\ pos = Len(decision.actions.items) => pc' = "goals_update" /\ pos' = 0
       /\ (/\ pc = "goals_update" /\ decision.action_type \in ActionHandlers
           /\ decision.goals_update # Null /\ pos < Len(decision.goals_update.items)) =>
            /\ pc' = "goals_update" /\ pos' = pos + 1
            /\ Len(goals') = Len(goals) + 1
            /\ goals'[Len(goals')].text = decision.goals_update.items[pos + 1]]_vars

\* code generation over two actions: the first failed at the collaborator or
\* at its recording, the second was generated, checked and recorded, and the
\* goal of goals_update has been added behind the handler
C32_Witness ==
    /\ pc = "goals_update" /\ pos = 1
    /\ decision.action_type = "code_generation"
    /\ Len(decision.actions.items) = 2
    /\ Len(memory) >= 2
    /\ LastEvent.type = "code_generated" /\ LastEvent.content = A2
    /\ memory[Len(memory) - 1].type = "decision"
    /\ goals # <<>> /\ goals[Len(goals)].text = decision.goals_update.items[1]

\* ---- C33 ---------------------------------------------------------------
OutcomeTypes == {"code_generated", "code_refactored", "research", "reflection"}
\* this step appends an outcome event to the Memory Log
OutcomeRecorded ==
    /\ Len(memory') = Len(memory) + 1
    /\ memory'[Len(memory')].type \in OutcomeTypes
\* this step is a turn of a handler whose collaborator returned (and, for code
\* generation, whose code passed the safety check)
CollaboratorReturned ==
    /\ InActionHandler /\ pos < Len(decision.actions.items)
    /\ decision.action_type = "code_generation" =>
          collab'.execution_count = collab.execution_count + 1
    /\ decision.action_type = "research" =>
          collab'.research_count = collab.research_count + 1

\* C33: in every handler category one outcome event is recorded per action
\* whose collaborator call returned without failure, and none otherwise: each
\* outcome event recorded belongs to the turn of one action string of the
\* actions list, so a dispatch over n such actions records n outcome events
\* and a dispatch over an empty actions list records none.
C33_OneOutcomePerAction ==
    [][/\ OutcomeRecorded =>
            /\ decision.actions # Null
            /\ pos < Len(decision.actions.items)
            /\ pos' = pos + 1
       /\ CollaboratorReturned => OutcomeRecorded]_vars

\* ---- C34 ---------------------------------------------------------------
\* the memory event type a handler category records, and the counters of the
\* collaborators it calls
OutcomeOf(action_type) ==
    CASE action_type = "code_generation" -> {"code_generated"}
      [] action_type = "code_refactor"   -> {"code_refactored"}
      [] action_type = "research"        -> {"research"}
      [] action_type = "reflection"      -> {"reflection"}
      [] OTHER -> {}
CountersOf(action_type) ==
    CASE action_type = "code_generation" ->
            {"generation_count", "allowed_count", "blocked_count", "execution_count"}
      [] action_type = "code_refactor"   -> {"refactor_count"}
      [] action_type = "research"        -> {"research_count"}
      [] action_type = "reflection"      -> {"reflection_count"}
      [] OTHER -> {}
Touched == {f \in DOMAIN collab : collab'[f] # collab[f]}
\* the events this step appends to the Memory Log
NewEvents == SubSeq(memory', Len(memory) + 1, Len(memory'))
\* the "decision" events recorded by this Jarvis object
DecisionEvents ==
    {k \in 1..Len(memory) : memory[k].type = "decision" /\ memory[k].content = Analysis}
IterationsEntered == Cardinality({k \in 1..Len(trace) : trace[k][1] = "iteration"})

\* C34: the steps of an iteration occur in this order: the decide call; then
\* exactly one "decision" memory event carrying the analysis; then at most one
\* handler category, the one named by action_type, and none when action_type
\* is outside the five tags; then the goals_update adds.  So each iteration
\* entered has its one "decision" event, and every handler outcome event is
\* appended behind the "decision" event of its iteration and before the next
\* iteration is decided.
C34_IterationOrder ==
    /\ [](Cardinality(DecisionEvents) =
              IF pc = "decided" THEN IterationsEntered - 1 ELSE IterationsEntered)
    /\ [][/\ pc' = "decided" => pc = "loop" /\ memory' = memory /\ goals' = goals
          /\ pc = "decided" =>
                /\ Len(NewEvents) = 1
                /\ NewEvents[1].type = "decision" /\ NewEvents[1].content = decision.analysis
                /\ pc' \in {"dispatch", "except"}
                /\ goals' = goals /\ collab' = collab
          /\ pc # "decided" => \A k \in 1..Len(NewEvents) : NewEvents[k].type # "decision"
          /\ pc \in {"dispatch", "reflected"} =>
                /\ \A k \in 1..Len(NewEvents) : NewEvents[k].type \in OutcomeOf(decision.action_type)
                /\ Touched \subseteq CountersOf(decision.action_type)
                /\ goals' # goals => decision.action_type = "goal_update"
                /\ decision.action_type \notin HandlerTypes =>
                      pc' = "goals_update" /\ memory' = memory
                /\ pc' \in {"dispatch", "reflected", "goals_update", "except"}
          /\ pc \notin {"dispatch", "reflected"} =>
                /\ Touched = {}
                /\ \A k \in 1..Len(NewEvents) : NewEvents[k].type \notin OutcomeTypes
          /\ pc = "goals_update" =>
                /\ memory' = memory
                /\ pc' \in {"goals_update", "loop", "except"}
          /\ goals' # goals => pc \in {"dispatch", "goals_update"}]_vars

\* a research iteration at its goals_update: behind the old events the log
\* holds the "decision" event and then the outcome event of the handler, and
\* the goal has been added last
C34_Witness ==
    /\ pc = "goals_update" /\ pos = 1
    /\ decision.action_type = "research"
    /\ Len(memory) >= 2
    /\ LastEvent.type = "research"
    /\ \E k \in DecisionEvents : k < Len(memory)
    /\ ghist.op = "add"

\* ---- C35 ---------------------------------------------------------------
\* C35: in an iteration whose decision carries goals_update = G, Goal Store
\* add is called exactly once per element of G, in order, whatever the
\* action_type: the store grows only in the goals_update walk behind the
\* dispatch, by the element the walk stands at, and the iteration ends when
\* the walk has passed every element, so the store has grown by exactly |G|.
C35_GoalsUpdateAddedOnce ==
    [][/\ goals' # goals =>
            /\ pc = "goals_update"
            /\ decision.goals_update # Null
            /\ pos < Len(decision.goals_update.items)
            /\ Len(goals') = Len(goals) + 1
            /\ SubSeq(goals', 1, Len(goals)) = goals
            /\ goals'[Len(goals')].text = decision.goals_update.items[pos + 1]
            /\ pos' = pos + 1
       /\ (pc = "goals_update" /\ pc' = "loop") =>
            pos = Len(decision.goals_update.items)]_vars

\* ---- C36 ---------------------------------------------------------------
\* this step is a turn of the loop of _handle_code_generation
GenerationTurn ==
    /\ InActionHandler /\ decision.action_type = "code_generation"
    /\ pos < Len(decision.actions.items)
ExecutorInvoked == collab'.execution_count # collab.execution_count
CheckReturnedTrue  == collab'.allowed_count = collab.allowed_count + 1
CheckReturnedFalse == collab'.blocked_count = collab.blocked_count + 1

\* C36: the permission filter gates acting on generated code. In a turn of
\* code-generation handling the executor is invoked and a "code_generated"
\* event is appended only if check_code_safety returned true for the code of
\* that action; when it returned false neither happens and the handler
\* proceeds to the next action.
C36_FilterGatesExecution ==
    [][GenerationTurn =>
          /\ (ExecutorInvoked \/ OutcomeRecorded) => CheckReturnedTrue
          /\ CheckReturnedFalse =>
                /\ ~ExecutorInvoked
                /\ memory' = memory
                /\ pc' = "dispatch" /\ pos' = pos + 1]_vars

\* the first iteration: the code of the first action was refused, nothing was
\* executed or recorded for it, and the second action was executed and
\* recorded behind it
C36_Witness ==
    /\ IterationsEntered = 1
    /\ pc = "dispatch" /\ pos = 2
    /\ decision.action_type = "code_generation"
    /\ collab.blocked_count = 1 /\ collab.allowed_count = 1
    /\ collab.execution_count = 1
    /\ Len(memory) >= 2
    /\ LastEvent.type = "code_generated" /\ LastEvent.content = A2
    /\ memory[Len(memory) - 1].type = "decision"

\* ---- C37 ---------------------------------------------------------------
\* run publishes in three places, and each leaves its entry in the trace
PublishNotes == {"run", "error_recorded", "report"}
\* the number of events published when trace entry k had been made
PublishedUpTo(k) == Cardinality({q \in 1..k : trace[q][1] \in PublishNotes})
\* the trace position at which the last iteration was entered
LastIterationStart ==
    CHOOSE k \in 1..Len(trace) :
        /\ trace[k][1] = "iteration"
        /\ \A q \in (k + 1)..Len(trace) : trace[q][1] # "iteration"
\* the last iteration has recorded a handler result in the Memory Log
HandlerResultRecorded ==
    \E k \in 1..Len(memory) :
        /\ memory[k].type \in OutcomeTypes
        /\ \A d \in DecisionEvents : d < k
        /\ Cardinality(DecisionEvents) = IterationsEntered

\* C37: the Event Bus is notified in every iteration: when an iteration that
\* recorded a handler result is over and the next one is about to start, at
\* least one event has been published since the iteration was entered.
C37_BusNotifiedPerIteration ==
    /\ Len(published) = PublishedUpTo(Len(trace))
    /\ (/\ pc = "loop" /\ 1 <= loop_i /\ loop_i < iterations
        /\ HandlerResultRecorded) =>
          Len(published) > PublishedUpTo(LastIterationStart)

\* ---- C38 ---------------------------------------------------------------
\* the iterations entered between the run entry of trace position k and k
IterationsOfRun(k) ==
    Cardinality({q \in RunOf(k)..k : trace[q][1] = "iteration"})

\* C38: the iteration state is reset at the start of each run: whatever runs
\* were made before on the same object, the iteration index is 0 before the
\* first iteration of run(N), and the report's total_iterations is the number
\* of iterations executed in this run.
C38_IterationStateReset ==
    /\ (pc = "loop" /\ loop_i = 0) => iteration_count = 0
    /\ \A k \in 1..Len(trace) :
          trace[k][1] = "report" => trace[k][2] = IterationsOfRun(k)

\* ---- C39 ---------------------------------------------------------------
\* every goal of the store was added by this object: the store started empty
StartedEmpty == gstats.created = Len(goals)
\* the goals that stand in a status
InStatus(status) == {i \in 1..Len(goals) : goals[i].status = status}

\* C39: in a Goal Store that started empty, stats.completed is the number of
\* complete calls whose id matched a goal and stats.failed the number of
\* matching fail calls, whatever the status of the goal was before the call;
\* add, block and calls that match no goal change neither counter.
C39_CountersCountMatchingCalls ==
    StartedEmpty =>
        /\ gstats.completed = gmatched.complete
        /\ gstats.failed = gmatched.fail
        /\ get_stats(goals, gstats).completed = gmatched.complete
        /\ get_stats(goals, gstats).failed = gmatched.fail

\* one goal, completed twice and failed in between: both counters exceed the
\* number of goals that stand in their status
C39_Witness ==
    /\ StartedEmpty /\ Len(goals) = 1
    /\ gmatched = [complete |-> 2, fail |-> 1]
    /\ gstats.completed = 2 /\ gstats.failed = 1
    /\ Cardinality(InStatus(STATUS_COMPLETED)) = 1
    /\ Cardinality(InStatus(STATUS_FAILED)) = 0

\* ---- C40 ---------------------------------------------------------------
\* this step is a cache.get of generate / search that found a live entry
CacheHit == dpc = "outer" /\ clast'.op = "get" /\ clast'.path = "hit"

\* C40: nested retry wrappers multiply. A call of generate / search whose
\* oracle fails every time invokes the oracle exactly 3 * m times, m the
\* attempts of the method's wrapper (9 for generate, 6 for search), before its
\* error propagates; a cache hit in generate / search returns the cached value
\* without invoking the oracle at all.
C40_NestedRetriesMultiply ==
    /\ [](dpc = "raised" =>
             /\ Len(OracleCalls) = COMPLETION_ATTEMPTS * callee.attempts
             /\ FailedOracleCalls = Len(OracleCalls))
    /\ []((DecideFinished /\ OracleCalls # <<>> /\ FailedOracleCalls = Len(OracleCalls))
             => dpc = "raised")
    /\ [][CacheHit =>
             /\ dpc' = "returned" /\ dresult' = clast'.result
             /\ dlog' = <<>>]_vars

====
